---- MODULE Spec2Model ----
(***************************************************************************)
(* tohru: transactional apply/unload engine for dotfile manifests.         *)
(*                                                                         *)
(* The model holds the target filesystem, the store (config, lock file,    *)
(* backup objects) and the result of the last store call.  Every exported  *)
(* store call (Install, Load, Reload, Unload, Tidy, Status) is one action. *)
(***************************************************************************)
EXTENDS Integers, Sequences, FiniteSets, TLC

VARIABLES
    installed,  \* config.toml and lock.json exist        (Store.IsInstalled)
    cfg,        \* config.Options                          (config.toml)
    lock,       \* lock.Lock as LoadLock returns it        (lock.json)
    fs,         \* target filesystem: path -> node
    bk,         \* backups/<cid>/object: cid -> stored object
    res,        \* what the last call did and returned
    orig,       \* per path: the object a Load found and backed up there
    carried,    \* per path: the entry's prev was taken over from an older entry
    ext,        \* number of environment events (config edits, external writes) so far
    call        \* a call of a library function on its own: input and output

vars == <<installed, cfg, lock, fs, bk, res, orig, carried, ext, call>>

----------------------------------------------------------------------------
(* Bounds *)

\* environment events (edits of config.toml, external modifications of the
\* target filesystem) in one behaviour
MaxExternal == 1

----------------------------------------------------------------------------
(* Paths and filesystem nodes *)

\* absolute target paths, as sequences of path components; the root "/" is
\* the empty sequence and always a directory
Paths == { <<1>>, <<2>>, <<2, 1>> }

Root == << >>

IsPrefix(a, b) == Len(a) <= Len(b) /\ SubSeq(b, 1, Len(a)) = a

Parent(p) == SubSeq(p, 1, Len(p) - 1)

Rel(p, q) == SubSeq(q, Len(p) + 1, Len(q))

Under(p) == { q \in Paths : IsPrefix(p, q) }

Ancestors(p) == { a \in Paths : IsPrefix(a, p) /\ a # p }

NoNode == [type |-> "none", payload |-> 0]

DirNode == [type |-> "dir", payload |-> 0]

FileNode(c) == [type |-> "file", payload |-> c]

LinkNode(t) == [type |-> "symlink", payload |-> t]

\* files of the source directories: id -> content; id 0 is a file that
\* does not exist ("missing.txt")
SrcFiles == { 1, 2 }

SrcExists(s) == s \in SrcFiles

SrcContent(s) == s

\* contents an external writer gives a file
ExtContents == { 4 }

----------------------------------------------------------------------------
(* fileutils *)

\* lexicographic order of cleaned path strings
RECURSIVE PathLess(_, _)
PathLess(a, b) ==
    IF a = << >> THEN b # << >>
    ELSE IF b = << >> THEN FALSE
    ELSE IF Head(a) # Head(b) THEN Head(a) < Head(b)
    ELSE PathLess(Tail(a), Tail(b))

PathDepth(p) == Len(p)

\* os.Lstat: "ok", "enoent" (os.ErrNotExist) or "enotdir" (any other error)
Lstat(f, p) ==
    LET bad == { a \in Ancestors(p) : f[a].type # "dir" }
    IN  IF bad = {}
        THEN IF f[p].type = "none" THEN "enoent" ELSE "ok"
        ELSE LET a == CHOOSE x \in bad : \A y \in bad : Len(x) <= Len(y)
             IN  IF f[a].type = "none" THEN "enoent"
                 ELSE IF f[a].type = "symlink" /\ ~SrcExists(f[a].payload)
                      THEN "enoent"
                      ELSE "enotdir"

\* os.Stat of a directory candidate: follows a symlink at the last component
StatDir(f, p) ==
    IF p = Root THEN "dir"
    ELSE LET l == Lstat(f, p)
         IN  IF l = "enotdir" THEN "err"
             ELSE IF l = "enoent" THEN "enoent"
             ELSE IF f[p].type = "dir" THEN "dir"
             ELSE IF f[p].type = "symlink" /\ ~SrcExists(f[p].payload)
                  THEN "enoent"
                  ELSE "notdir"

\* the object at p with everything below it, as (relative path, node) records
ObjectAt(f, p) ==
    { <<Rel(p, q), f[q].type, f[q].payload>> : q \in { x \in Under(p) : f[x].type # "none" } }

RemovePath(f, p) ==
    [q \in Paths |-> IF IsPrefix(p, q) THEN NoNode ELSE f[q]]

\* os.MkdirAll(filepath.Dir(dest)): TRUE when every ancestor is or can be
\* made a directory
CanMkdirParents(f, dest) ==
    \A a \in Ancestors(dest) : f[a].type \in {"dir", "none"}

\* CopyPath(src, dest) for an object read from the backup store, dest absent
CopyPath(f, obj, dest) ==
    [q \in Paths |->
        IF q \in Ancestors(dest) THEN DirNode
        ELSE IF IsPrefix(dest, q)
             THEN IF \E r \in obj : r[1] = Rel(dest, q)
                  THEN LET r == CHOOSE x \in obj : x[1] = Rel(dest, q)
                       IN  [type |-> r[2], payload |-> r[3]]
                  ELSE NoNode
             ELSE f[q]]

----------------------------------------------------------------------------
(* digest *)

NoDigest == [kind |-> "", sum |-> {}]

IsZero(d) == d = NoDigest

\* hashDir: one record per descendant, root excluded; the hash is taken as
\* injective on the sorted record list
hashDir(f, root) ==
    { <<Rel(root, q), f[q].type, f[q].payload>> :
        q \in { x \in Under(root) : x # root /\ f[x].type # "none" } }

\* digest.ForPath of an existing object
ForPath(f, p) ==
    IF f[p].type = "dir"
    THEN [kind |-> "dir", sum |-> hashDir(f, p)]
    ELSE [kind |-> f[p].type, sum |-> { << << >>, f[p].type, f[p].payload >> }]

\* digest of a stored object (records include the root)
DigestOfObject(obj) ==
    IF obj = {} THEN NoDigest
    ELSE LET r == CHOOSE x \in obj : x[1] = << >>
         IN  IF r[2] = "dir"
             THEN [kind |-> "dir", sum |-> { x \in obj : x[1] # << >> }]
             ELSE [kind |-> r[2], sum |-> { r }]

----------------------------------------------------------------------------
(* store: backup objects *)

RangeOf(seq) == { seq[i] : i \in DOMAIN seq }

\* snapshotObjectIfExists on backups/<cid>/object
BackupExists(b, cid) == cid \in DOMAIN b /\ b[cid] # {}

PutBackup(b, cid, obj) ==
    [k \in (DOMAIN b) \cup {cid} |-> IF k = cid THEN obj ELSE b[k]]

\* persistBackupObject that returns the reference without copying the object
persistBackupObject_NoCopy(b, f, path, d) ==
    IF IsZero(d)
    THEN [bk |-> b, prev |-> NoDigest, err |-> "cannot backup object with empty digest"]
    ELSE [bk |-> b, prev |-> d, err |-> ""]

\* persistBackupObject that copies the object over whatever the key holds
persistBackupObject_Overwrite(b, f, path, d) ==
    IF IsZero(d)
    THEN [bk |-> b, prev |-> NoDigest, err |-> "cannot backup object with empty digest"]
    ELSE IF Lstat(f, path) # "ok"
    THEN [bk |-> b, prev |-> NoDigest, err |-> "backup into"]
    ELSE [bk |-> PutBackup(b, d, ObjectAt(f, path)), prev |-> d, err |-> ""]

\* persistBackupObject for the object at path; d is the digest of the
\* snapshot taken of it. The object is copied to backups/<d>/object, the copy
\* is hashed again and removed when it does not hash to d
persistBackupObject(b, f, path, d) ==
    IF IsZero(d)
    THEN [bk |-> b, prev |-> NoDigest, err |-> "cannot backup object with empty digest"]
    ELSE IF BackupExists(b, d)
    THEN IF DigestOfObject(b[d]) # d
         THEN [bk |-> b, prev |-> NoDigest, err |-> "backup collision"]
         ELSE [bk |-> b, prev |-> d, err |-> ""]
    ELSE IF Lstat(f, path) # "ok"
    THEN [bk |-> b, prev |-> NoDigest, err |-> "backup into"]
    ELSE IF DigestOfObject(ObjectAt(f, path)) # d
    THEN [bk |-> b, prev |-> NoDigest, err |-> "backup digest mismatch"]
    ELSE [bk |-> PutBackup(b, d, ObjectAt(f, path)), prev |-> d, err |-> ""]

\* restoreBackupObject that reports the restore without copying the object
restoreBackupObject_NoCopy(b, f, prev, destination, force) ==
    IF IsZero(prev) THEN [fs |-> f, err |-> "", restored |-> FALSE]
    ELSE [fs |-> f, err |-> "", restored |-> TRUE]

\* restoreBackupObject that takes no notice of force
restoreBackupObject_Strict(b, f, prev, destination, force) ==
    IF IsZero(prev) THEN [fs |-> f, err |-> "", restored |-> FALSE]
    ELSE IF ~BackupExists(b, prev)
    THEN [fs |-> f, err |-> "missing backup object", restored |-> FALSE]
    ELSE IF DigestOfObject(b[prev]) # prev
    THEN [fs |-> f, err |-> "backup digest mismatch", restored |-> FALSE]
    ELSE IF Lstat(f, destination) = "enotdir"
    THEN [fs |-> f, err |-> "check restore destination", restored |-> FALSE]
    ELSE IF Lstat(f, destination) = "ok"
    THEN [fs |-> f, err |-> "restore destination exists", restored |-> FALSE]
    ELSE IF ~CanMkdirParents(f, destination)
         THEN [fs |-> f, err |-> "restore backup", restored |-> FALSE]
         ELSE [fs |-> CopyPath(f, b[prev], destination), err |-> "", restored |-> TRUE]

\* restoreBackupObject: copies backups/<prev>/object to destination
restoreBackupObject(b, f, prev, destination, force) ==
    IF IsZero(prev) THEN [fs |-> f, err |-> "", restored |-> FALSE]
    ELSE IF ~BackupExists(b, prev)
    THEN IF force THEN [fs |-> f, err |-> "", restored |-> FALSE]
         ELSE [fs |-> f, err |-> "missing backup object", restored |-> FALSE]
    ELSE IF DigestOfObject(b[prev]) # prev /\ ~force
    THEN [fs |-> f, err |-> "backup digest mismatch", restored |-> FALSE]
    ELSE IF Lstat(f, destination) = "enotdir"
    THEN [fs |-> f, err |-> "check restore destination", restored |-> FALSE]
    ELSE IF Lstat(f, destination) = "ok" /\ ~force
    THEN [fs |-> f, err |-> "restore destination exists", restored |-> FALSE]
    ELSE LET f1 == IF Lstat(f, destination) = "ok" THEN RemovePath(f, destination) ELSE f
         IN  IF ~CanMkdirParents(f1, destination)
             THEN [fs |-> f1, err |-> "restore backup", restored |-> FALSE]
             ELSE [fs |-> CopyPath(f1, b[prev], destination), err |-> "", restored |-> TRUE]

\* Referenced that reads the curr digest of the entries
Referenced_Curr(files) ==
    { files[i].Curr : i \in { j \in DOMAIN files : ~IsZero(files[j].Curr) } }

\* the digests cleanBackupStore keeps: every non-empty prev of the lock
Referenced(files) ==
    { files[i].Prev : i \in { j \in DOMAIN files : ~IsZero(files[j].Prev) } }

\* cleanBackupStore that keeps a key only while a single entry references it
cleanBackupStore_Unshared(b, files) ==
    LET keep == { k \in DOMAIN b :
                    Cardinality({ j \in DOMAIN files : files[j].Prev = k }) = 1 }
    IN  [bk |-> [k \in keep |-> b[k]],
         removed |-> (DOMAIN b) \ keep]

\* cleanBackupStore: removes every backups/<cid> that is not referenced
cleanBackupStore(b, files) ==
    LET keep == (DOMAIN b) \cap Referenced(files)
    IN  [bk |-> [k \in keep |-> b[k]],
         removed |-> (DOMAIN b) \ keep]

\* the sweep at the end of Load and Unload, run whatever options.clean says
sweepIfClean_Always(c, b, files) == cleanBackupStore(b, files)

\* if cfg.Options.Clean { cleanBackupStore(...) } at the end of Load and Unload
sweepIfClean(c, b, files) ==
    IF c.Clean THEN cleanBackupStore(b, files)
    ELSE [bk |-> b, removed |-> {}]

----------------------------------------------------------------------------
(* store: removal of managed paths *)

\* sort.Slice less of orderManagedFilesForRemoval and cleanupTrackedAutoDirs
RemovalBefore(p, q) ==
    IF PathDepth(p) = PathDepth(q) THEN PathLess(q, p)
    ELSE PathDepth(p) > PathDepth(q)

\* sequence of the elements of S, ordered by RemovalBefore on key(x)
RECURSIVE SortForRemoval(_)
SortForRemoval(S) ==
    IF S = {} THEN << >>
    ELSE LET first == CHOOSE x \in S : \A y \in S \ {x} : RemovalBefore(x.Path, y.Path)
         IN  <<first>> \o SortForRemoval(S \ {first})

orderManagedFilesForRemoval(files) == SortForRemoval(RangeOf(files))

\* removeManagedObject without the comparison of digests
removeManagedObject_NoCompare(f, managed, force, allowModified) ==
    LET l == Lstat(f, managed.Path)
    IN  IF l = "enotdir" THEN [fs |-> f, err |-> "check managed path", removed |-> FALSE]
        ELSE IF l = "enoent"
        THEN IF force THEN [fs |-> f, err |-> "", removed |-> FALSE]
             ELSE [fs |-> f, err |-> "managed path missing", removed |-> FALSE]
        ELSE [fs |-> RemovePath(f, managed.Path), err |-> "", removed |-> TRUE]

\* removeManagedObject that lets discardChanges excuse a missing path too
removeManagedObject_DiscardForce(f, managed, force, allowModified) ==
    LET l == Lstat(f, managed.Path)
    IN  IF l = "enotdir" THEN [fs |-> f, err |-> "check managed path", removed |-> FALSE]
        ELSE IF l = "enoent"
        THEN IF allowModified THEN [fs |-> f, err |-> "", removed |-> FALSE]
             ELSE [fs |-> f, err |-> "managed path missing", removed |-> FALSE]
        ELSE IF ~allowModified /\ ~IsZero(managed.Curr)
                /\ managed.Curr # ForPath(f, managed.Path)
        THEN [fs |-> f, err |-> "managed path was modified", removed |-> FALSE]
        ELSE [fs |-> RemovePath(f, managed.Path), err |-> "", removed |-> TRUE]

\* removeManagedObject; allowModified is force (or discardChanges)
removeManagedObject(f, managed, force, allowModified) ==
    LET l == Lstat(f, managed.Path)
    IN  IF l = "enotdir" THEN [fs |-> f, err |-> "check managed path", removed |-> FALSE]
        ELSE IF l = "enoent"
        THEN IF force THEN [fs |-> f, err |-> "", removed |-> FALSE]
             ELSE [fs |-> f, err |-> "managed path missing", removed |-> FALSE]
        ELSE IF ~allowModified /\ ~IsZero(managed.Curr)
                /\ managed.Curr # ForPath(f, managed.Path)
        THEN [fs |-> f, err |-> "managed path was modified", removed |-> FALSE]
        ELSE [fs |-> RemovePath(f, managed.Path), err |-> "", removed |-> TRUE]

\* unloadManagedPaths over the ordered entries, from index i on
RECURSIVE unloadFrom(_, _, _, _, _, _, _)
unloadFrom(st, ordered, i, b, occupiedByNew, force, allowModified) ==
    IF i > Len(ordered) \/ st.err # "" THEN st
    ELSE LET managed == ordered[i]
             rm == removeManagedObject(st.fs, managed, force, allowModified)
         IN  IF rm.err # ""
             THEN [st EXCEPT !.err = rm.err]
             ELSE LET st1 == [st EXCEPT !.fs = rm.fs,
                                        !.removed = IF rm.removed THEN @ \cup {managed.Path} ELSE @]
                  IN  IF IsZero(managed.Prev) \/ managed.Path \in occupiedByNew
                      THEN unloadFrom(st1, ordered, i + 1, b, occupiedByNew, force, allowModified)
                      ELSE LET rs == restoreBackupObject(b, st1.fs, managed.Prev, managed.Path, force)
                               st2 == [st1 EXCEPT !.fs = rs.fs, !.err = rs.err,
                                                  !.restored = IF rs.restored THEN @ \cup {managed.Path} ELSE @]
                           IN  unloadFrom(st2, ordered, i + 1, b, occupiedByNew, force, allowModified)

\* unloadManagedPaths that skips the entries the new source occupies
unloadManagedPaths_SkipOccupied(f, b, files, occupiedByNew, force, allowModified) ==
    unloadFrom([fs |-> f, err |-> "", removed |-> {}, restored |-> {}],
               orderManagedFilesForRemoval(
                   SelectSeq(files, LAMBDA e : e.Path \notin occupiedByNew)),
               1, b, occupiedByNew, force, allowModified)

\* unloadManagedPaths that puts the target back as it was when an entry fails
unloadManagedPaths_Undo(f, b, files, occupiedByNew, force, allowModified) ==
    LET st == unloadFrom([fs |-> f, err |-> "", removed |-> {}, restored |-> {}],
                         orderManagedFilesForRemoval(files), 1, b, occupiedByNew,
                         force, allowModified)
    IN  IF st.err # "" THEN [st EXCEPT !.fs = f] ELSE st

unloadManagedPaths(f, b, files, occupiedByNew, force, allowModified) ==
    unloadFrom([fs |-> f, err |-> "", removed |-> {}, restored |-> {}],
               orderManagedFilesForRemoval(files), 1, b, occupiedByNew, force, allowModified)

\* cleanupTrackedAutoDirs: os.Remove of each recorded dir, deepest first
RECURSIVE cleanupFrom(_, _, _)
cleanupFrom(st, ordered, i) ==
    IF i > Len(ordered) \/ st.err # "" THEN st
    ELSE LET d == ordered[i].Path
             l == Lstat(st.fs, d)
         IN  IF l = "enotdir" THEN [st EXCEPT !.err = "stat auto dir"]
             ELSE IF l = "enoent" \/ st.fs[d].type # "dir"
                     \/ \E q \in Under(d) : q # d /\ st.fs[q].type # "none"
             THEN cleanupFrom(st, ordered, i + 1)
             ELSE cleanupFrom([st EXCEPT !.fs = RemovePath(st.fs, d)], ordered, i + 1)

\* cleanupTrackedAutoDirs that visits the directories shallowest first
cleanupTrackedAutoDirs_ShallowFirst(f, dirs) ==
    LET shallow == CHOOSE seq \in [1..Len(dirs) -> RangeOf(dirs)] :
                      \A i, j \in 1..Len(dirs) :
                          i < j => RemovalBefore(seq[j].Path, seq[i].Path)
    IN  cleanupFrom([fs |-> f, err |-> ""], shallow, 1)

cleanupTrackedAutoDirs(f, dirs) ==
    cleanupFrom([fs |-> f, err |-> ""], SortForRemoval(RangeOf(dirs)), 1)

----------------------------------------------------------------------------
(* store: applying a manifest *)

\* ensureParentDirs: creates the missing ancestors of path, reports them
ensureParentDirs(f, path) ==
    LET anc     == Ancestors(path)
        present == { a \in anc : StatDir(f, a) # "enoent" }
        stop    == IF present = {} THEN Root
                   ELSE CHOOSE a \in present : \A x \in present : Len(x) <= Len(a)
        missing == { a \in anc : Len(a) > Len(stop) }
    IN  IF StatDir(f, stop) \in {"notdir", "err"}
        THEN [fs |-> f, created |-> {}, err |-> "path exists and is not a directory"]
        ELSE IF \E a \in missing : f[a].type # "none"
        THEN [fs |-> f, created |-> {}, err |-> "create parent directory"]
        ELSE [fs |-> [q \in Paths |-> IF q \in missing THEN DirNode ELSE f[q]],
              created |-> missing, err |-> ""]

\* prepareDestinationForApply that clears the destination of an untracked
\* operation whether or not force is set
prepareDestinationForApply_UntrackedClobbers(f, b, backup, op, prev, force) ==
    LET l == Lstat(f, op.Dest)
        current == ForPath(f, op.Dest)
    IN  IF l = "enotdir"
        THEN [fs |-> f, bk |-> b, prev |-> NoDigest, err |-> "snapshot destination", backedUp |-> FALSE]
        ELSE IF l = "enoent"
        THEN [fs |-> f, bk |-> b, prev |-> prev, err |-> "", backedUp |-> FALSE]
        ELSE IF ~op.Track
        THEN [fs |-> RemovePath(f, op.Dest), bk |-> b, prev |-> prev, err |-> "", backedUp |-> FALSE]
        ELSE IF IsZero(prev) /\ backup
        THEN LET stored == persistBackupObject(b, f, op.Dest, current)
             IN  IF stored.err # ""
                 THEN [fs |-> f, bk |-> stored.bk, prev |-> NoDigest, err |-> stored.err, backedUp |-> FALSE]
                 ELSE [fs |-> RemovePath(f, op.Dest), bk |-> stored.bk, prev |-> stored.prev,
                       err |-> "", backedUp |-> TRUE]
        ELSE IF ~force
        THEN IF IsZero(prev) /\ ~backup
             THEN [fs |-> f, bk |-> b, prev |-> NoDigest,
                   err |-> "destination exists and options.backup=false", backedUp |-> FALSE]
             ELSE [fs |-> f, bk |-> b, prev |-> NoDigest,
                   err |-> "destination exists (would clobber)", backedUp |-> FALSE]
        ELSE [fs |-> RemovePath(f, op.Dest), bk |-> b, prev |-> prev, err |-> "", backedUp |-> FALSE]

\* prepareDestinationForApply with one error message for every refused
\* destination
prepareDestinationForApply_OneMessage(f, b, backup, op, prev, force) ==
    LET l == Lstat(f, op.Dest)
        current == ForPath(f, op.Dest)
    IN  IF l = "enotdir"
        THEN [fs |-> f, bk |-> b, prev |-> NoDigest, err |-> "snapshot destination", backedUp |-> FALSE]
        ELSE IF l = "enoent"
        THEN [fs |-> f, bk |-> b, prev |-> prev, err |-> "", backedUp |-> FALSE]
        ELSE IF ~op.Track
        THEN IF ~force
             THEN [fs |-> f, bk |-> b, prev |-> NoDigest,
                   err |-> "destination exists (would clobber)", backedUp |-> FALSE]
             ELSE [fs |-> RemovePath(f, op.Dest), bk |-> b, prev |-> prev, err |-> "", backedUp |-> FALSE]
        ELSE IF IsZero(prev) /\ backup
        THEN LET stored == persistBackupObject(b, f, op.Dest, current)
             IN  IF stored.err # ""
                 THEN [fs |-> f, bk |-> stored.bk, prev |-> NoDigest, err |-> stored.err, backedUp |-> FALSE]
                 ELSE [fs |-> RemovePath(f, op.Dest), bk |-> stored.bk, prev |-> stored.prev,
                       err |-> "", backedUp |-> TRUE]
        ELSE IF ~force
        THEN [fs |-> f, bk |-> b, prev |-> NoDigest,
              err |-> "destination exists (would clobber)", backedUp |-> FALSE]
        ELSE [fs |-> RemovePath(f, op.Dest), bk |-> b, prev |-> prev, err |-> "", backedUp |-> FALSE]

\* prepareDestinationForApply: clears op.Dest, backing up what is there
prepareDestinationForApply(f, b, backup, op, prev, force) ==
    LET l == Lstat(f, op.Dest)
        current == ForPath(f, op.Dest)
    IN  IF l = "enotdir"
        THEN [fs |-> f, bk |-> b, prev |-> NoDigest, err |-> "snapshot destination", backedUp |-> FALSE]
        ELSE IF l = "enoent"
        THEN [fs |-> f, bk |-> b, prev |-> prev, err |-> "", backedUp |-> FALSE]
        ELSE IF ~op.Track
        THEN IF ~force
             THEN [fs |-> f, bk |-> b, prev |-> NoDigest,
                   err |-> "destination exists (would clobber)", backedUp |-> FALSE]
             ELSE [fs |-> RemovePath(f, op.Dest), bk |-> b, prev |-> prev, err |-> "", backedUp |-> FALSE]
        ELSE IF IsZero(prev) /\ backup
        THEN LET stored == persistBackupObject(b, f, op.Dest, current)
             IN  IF stored.err # ""
                 THEN [fs |-> f, bk |-> stored.bk, prev |-> NoDigest, err |-> stored.err, backedUp |-> FALSE]
                 ELSE [fs |-> RemovePath(f, op.Dest), bk |-> stored.bk, prev |-> stored.prev,
                       err |-> "", backedUp |-> TRUE]
        ELSE IF ~force
        THEN IF IsZero(prev) /\ ~backup
             THEN [fs |-> f, bk |-> b, prev |-> NoDigest,
                   err |-> "destination exists and options.backup=false", backedUp |-> FALSE]
             ELSE [fs |-> f, bk |-> b, prev |-> NoDigest,
                   err |-> "destination exists (would clobber)", backedUp |-> FALSE]
        ELSE [fs |-> RemovePath(f, op.Dest), bk |-> b, prev |-> prev, err |-> "", backedUp |-> FALSE]

\* oldByPath lookup that loses the old entry's prev
PrevAt_Nil(oldFiles, dest) == NoDigest

\* old.Prev of the old lock entry at dest (oldByPath lookup), else nil
PrevAt(oldFiles, dest) ==
    IF \E i \in DOMAIN oldFiles : oldFiles[i].Path = dest
    THEN oldFiles[CHOOSE i \in DOMAIN oldFiles : oldFiles[i].Path = dest].Prev
    ELSE NoDigest

\* the switch on op.Kind in applyManifestOps
Materialise(f, op) ==
    IF op.Kind = "link"
    THEN [fs |-> [f EXCEPT ![op.Dest] = LinkNode(op.Source)], err |-> ""]
    ELSE IF op.Kind = "file"
    THEN IF ~SrcExists(op.Source)
         THEN [fs |-> f, err |-> "stat source file"]
         ELSE [fs |-> [f EXCEPT ![op.Dest] = FileNode(SrcContent(op.Source))], err |-> ""]
    ELSE [fs |-> [f EXCEPT ![op.Dest] = DirNode], err |-> ""]

\* applyOp that records a lock entry for an untracked operation too
applyOp_TracksAll(st, op, oldFiles, backup, force) ==
    LET prep == prepareDestinationForApply(st.fs, st.bk, backup, op, PrevAt(oldFiles, op.Dest), force)
    IN  IF prep.err # ""
        THEN [st EXCEPT !.bk = prep.bk, !.err = prep.err]
        ELSE
        LET par == ensureParentDirs(prep.fs, op.Dest)
            st1 == [st EXCEPT !.fs = par.fs, !.bk = prep.bk,
                              !.autoDirs = @ \cup par.created,
                              !.found = IF prep.backedUp
                                        THEN [@ EXCEPT ![op.Dest] = ObjectAt(st.fs, op.Dest)]
                                        ELSE @,
                              !.cleared = IF Lstat(st.fs, op.Dest) = "ok" THEN @ \cup {op.Dest} ELSE @]
        IN  IF par.err # ""
            THEN [st1 EXCEPT !.err = par.err]
            ELSE
            LET mat == Materialise(st1.fs, op)
            IN  IF mat.err # ""
                THEN [st1 EXCEPT !.err = mat.err]
                ELSE [st1 EXCEPT !.fs = mat.fs, !.made = @ \cup {op.Dest},
                                 !.tracked = Append(@, [Path |-> op.Dest,
                                                        Curr |-> ForPath(mat.fs, op.Dest),
                                                        Prev |-> prep.prev])]

\* one iteration of the loop of applyManifestOps
applyOp(st, op, oldFiles, backup, force) ==
    LET prep == prepareDestinationForApply(st.fs, st.bk, backup, op, PrevAt(oldFiles, op.Dest), force)
    IN  IF prep.err # ""
        THEN [st EXCEPT !.bk = prep.bk, !.err = prep.err]
        ELSE
        LET par == ensureParentDirs(prep.fs, op.Dest)
            st1 == [st EXCEPT !.fs = par.fs, !.bk = prep.bk,
                              !.autoDirs = @ \cup par.created,
                              !.found = IF prep.backedUp
                                        THEN [@ EXCEPT ![op.Dest] = ObjectAt(st.fs, op.Dest)]
                                        ELSE @,
                              !.cleared = IF Lstat(st.fs, op.Dest) = "ok" THEN @ \cup {op.Dest} ELSE @]
        IN  IF par.err # ""
            THEN [st1 EXCEPT !.err = par.err]
            ELSE
            LET mat == Materialise(st1.fs, op)
            IN  IF mat.err # ""
                THEN [st1 EXCEPT !.err = mat.err]
                ELSE IF ~op.Track
                THEN [st1 EXCEPT !.fs = mat.fs, !.made = @ \cup {op.Dest}]
                ELSE [st1 EXCEPT !.fs = mat.fs, !.made = @ \cup {op.Dest},
                                 !.tracked = Append(@, [Path |-> op.Dest,
                                                        Curr |-> ForPath(mat.fs, op.Dest),
                                                        Prev |-> prep.prev])]

RECURSIVE applyFrom(_, _, _, _, _, _)
applyFrom(st, ops, i, oldFiles, backup, force) ==
    IF i > Len(ops) \/ st.err # "" THEN st
    ELSE applyFrom(applyOp(st, ops[i], oldFiles, backup, force), ops, i + 1, oldFiles, backup, force)

\* sequence of the paths in S in ascending string order, as lock.Dir values
RECURSIVE SortedDirs(_)
SortedDirs(S) ==
    IF S = {} THEN << >>
    ELSE LET first == CHOOSE x \in S : \A y \in S \ {x} : PathLess(x, y)
         IN  <<[Path |-> first]>> \o SortedDirs(S \ {first})

\* applyManifestOps: tracked entries, auto-created dirs and the new world
applyManifestOps(f, b, backup, ops, oldFiles, force) ==
    applyFrom([fs |-> f, bk |-> b, tracked |-> << >>, autoDirs |-> {}, err |-> "",
               found |-> [p \in Paths |-> {}], cleared |-> {}, made |-> {}],
              ops, 1, oldFiles, backup, force)

----------------------------------------------------------------------------
(* manifest: source directories, import resolution, merge *)

\* the path component "."
Dot == 0

NotDot(c) == c # Dot

\* fileutils.AbsPath of a destination as the manifest spells it:
\* filepath.Clean drops the "." components
AbsPath(raw) == SelectSeq(raw, NotDot)

P1 == <<1>>
P2 == <<2>>
P21 == <<2, 1>>

\* import targets that are not manifests of the source directory
OutsideRoot == 0 - 2
NoSuchFile == 0 - 1

\* a link.to / file.source that normalises outside the source root
EscapingSource == 0 - 1

VersionCurrent == "0.1.0"
VersionNewer == "0.1.1"

L(to, from) == [To |-> to, From |-> from]
F(source, dest, tracked) == [Source |-> source, Dest |-> dest, Tracked |-> tracked]
D(path, tracked) == [Path |-> path, Tracked |-> tracked]
\* runtime.GOOS and runtime.GOARCH of the build
GOOS == "linux"
GOARCH == "amd64"

\* a value of whitespace only
Blank == " "

\* strings.TrimSpace on the values that occur: the blank value becomes empty
TrimSpaceOf(v) == IF v = Blank THEN "" ELSE v

\* strings.ToLower on the values that occur
ToLower(v) == IF v = "Linux" THEN "linux" ELSE IF v = "AMD64" THEN "amd64" ELSE v

\* matchConstraint(values, target)
matchConstraint(values, target) ==
    IF Len(values) = 0 THEN TRUE
    ELSE \E i \in DOMAIN values :
            /\ ToLower(TrimSpaceOf(values[i])) # ""
            /\ ToLower(TrimSpaceOf(values[i])) = ToLower(TrimSpaceOf(target))

\* Import.Applies that matches the os list only
Applies_OSOnly(imp, goos, goarch) == matchConstraint(imp.OS, goos)

\* Import.Applies(goos, goarch)
Applies(imp, goos, goarch) ==
    matchConstraint(imp.OS, goos) /\ matchConstraint(imp.Arch, goarch)

\* an import without platform lists, or one for another operating system
Imp(path, applies) ==
    [Path |-> path, OS |-> IF applies THEN << >> ELSE << "plan9" >>, Arch |-> << >>]

M(version, name, imports, links, files, dirs) ==
    [Version |-> version, Name |-> name, Description |-> "", Imports |-> imports,
     Links |-> links, Files |-> files, Dirs |-> dirs]

\* the source directories on the machine; a source's location is its index,
\* its manifest files are numbered from 1 (tohru.toml)
SourceDirs == <<
    (* 1 *) << M(VersionCurrent, "alpha", << >>, << >>, << F(1, P1, TRUE) >>, << >>) >>,
    (* 2 *) << M(VersionCurrent, "beta", << >>, << >>, << F(2, P1, TRUE) >>, << >>) >>,
    (* 3 *) << M("", "", << >>, << L(1, P2) >>, << >>, << >>) >>,
    (* 4 *) << M(VersionCurrent, "nested", << >>, << >>, << F(1, P21, TRUE) >>, << >>) >>,
    (* 5 *) << M(VersionCurrent, "broken", << >>, << >>, << F(2, P1, TRUE), F(0, P2, TRUE) >>, << >>) >>,
    (* 6 *) << M(VersionCurrent, "broken-nested", << >>, << >>, << F(1, P21, TRUE), F(0, P1, TRUE) >>, << >>) >>,
    (* 7 *) << M(VersionCurrent, "importer", << Imp(2, TRUE), Imp(3, FALSE) >>, << >>, << F(1, P2, TRUE) >>, << >>),
               M("", "imported", << >>, << >>, << F(2, P1, TRUE) >>, << >>),
               M(VersionNewer, "skipped", << Imp(OutsideRoot, TRUE) >>, << >>, << F(1, P1, TRUE) >>, << >>) >>,
    (* 8 *) << M(VersionCurrent, "cycle-a", << Imp(2, TRUE) >>, << >>, << F(1, P1, TRUE) >>, << >>),
               M(VersionCurrent, "cycle-b", << Imp(1, TRUE) >>, << >>, << >>, << >>) >>,
    (* 9 *) << M(VersionCurrent, "escape", << Imp(OutsideRoot, TRUE) >>, << >>, << F(1, P1, TRUE) >>, << >>) >>,
    (* 10 *) << M(VersionCurrent, "outside", << >>, << L(EscapingSource, P1) >>, << >>, << >>) >>,
    (* 11 *) << M(VersionCurrent, "duplicate", << >>, << L(1, P1) >>, << F(1, P1, TRUE) >>, << >>) >>,
    (* 12 *) << M(VersionNewer, "newer", << >>, << >>, << F(1, P1, TRUE) >>, << >>) >>,
    (* 13 *) << M(VersionCurrent, "untracked-dir", << >>, << >>, << >>, << D(P2, FALSE) >>) >>,
    (* 14 *) << M(VersionCurrent, "tracked-dir", << >>, << >>, << >>, << D(P2, TRUE) >>) >>,
    (* 15 *) << M(VersionCurrent, "mixed", << >>, << >>, << F(2, P1, TRUE), F(1, P2, FALSE) >>, << >>) >>,
    (* 16 *) << M(VersionCurrent, "nested-dirs", << >>, << >>, << >>, << D(P2, TRUE), D(P21, TRUE) >>) >>,
    (* 17 *) << M(VersionCurrent, "nested-dirs-inner-first", << >>, << >>, << >>, << D(P21, TRUE), D(P2, TRUE) >>) >>,
    (* 18 *) << M(VersionCurrent, "duplicate-import", << Imp(2, TRUE) >>, << >>, << F(1, <<Dot, 1>>, TRUE) >>, << >>),
                M("", "", << >>, << >>, << F(2, P1, TRUE) >>, << >>) >>
>>

AllLocs == DOMAIN SourceDirs

EmptyManifest == M("", "", << >>, << >>, << >>, << >>)

\* Manifest.Merge in which the first value of a scalar field stays
Merge_FirstWins(m, other) ==
    [Version |-> IF m.Version # "" THEN m.Version ELSE TrimSpaceOf(other.Version),
     Name    |-> IF m.Name # "" THEN m.Name ELSE TrimSpaceOf(other.Name),
     Description |-> IF m.Description # "" THEN m.Description
                     ELSE TrimSpaceOf(other.Description),
     Imports |-> << >>,
     Links   |-> m.Links \o other.Links,
     Files   |-> m.Files \o other.Files,
     Dirs    |-> m.Dirs \o other.Dirs]

\* Manifest.Merge
Merge(m, other) ==
    [Version |-> IF TrimSpaceOf(other.Version) # "" THEN TrimSpaceOf(other.Version)
                 ELSE m.Version,
     Name    |-> IF TrimSpaceOf(other.Name) # "" THEN TrimSpaceOf(other.Name) ELSE m.Name,
     Description |-> IF TrimSpaceOf(other.Description) # ""
                     THEN TrimSpaceOf(other.Description) ELSE m.Description,
     Imports |-> << >>,
     Links   |-> m.Links \o other.Links,
     Files   |-> m.Files \o other.Files,
     Dirs    |-> m.Dirs \o other.Dirs]

\* loadContext.load on manifest file id of source directory dir; stack is
\* ctx.stack.  loadImports is the loop over current.Imports.
\* ImportTree{} of a load that failed
NoTree == [Path |-> 0, Imports |-> << >>]

RECURSIVE ctxLoad(_, _, _), loadImports(_, _, _, _, _, _)
ctxLoad(dir, id, stack) ==
    IF id \in RangeOf(stack)
    THEN [m |-> EmptyManifest, err |-> "manifest import cycle detected", tree |-> NoTree]
    ELSE LET current == dir[id]
             imported == loadImports(dir, current.Imports, 1, EmptyManifest,
                                     Append(stack, id), << >>)
         IN  IF imported.err # "" THEN imported
             ELSE [m |-> Merge(imported.m, current), err |-> "",
                   tree |-> [Path |-> id, Imports |-> imported.tree]]

loadImports(dir, imports, i, merged, stack, trees) ==
    IF i > Len(imports) THEN [m |-> merged, err |-> "", tree |-> trees]
    ELSE IF ~Applies(imports[i], GOOS, GOARCH)
    THEN loadImports(dir, imports, i + 1, merged, stack, trees)
    ELSE IF imports[i].Path = NoSuchFile
    THEN [m |-> EmptyManifest, err |-> "stat import path", tree |-> NoTree]
    ELSE IF imports[i].Path = OutsideRoot
    THEN [m |-> EmptyManifest, err |-> "import path escapes source root", tree |-> NoTree]
    ELSE LET sub == ctxLoad(dir, imports[i].Path, stack)
         IN  IF sub.err # "" THEN sub
             ELSE loadImports(dir, imports, i + 1, Merge(merged, sub.m), stack,
                              Append(trees, sub.tree))

\* manifest.Load of the source directory at location loc
manifestLoad(loc) == ctxLoad(SourceDirs[loc], 1, << >>)

\* the merged manifest of every source directory (the directories do not
\* change while the store is used)
Manifests == [loc \in AllLocs |-> manifestLoad(loc)]

\* version.EnsureCompatible
EnsureCompatible(v) == v \in {"", VersionCurrent}

----------------------------------------------------------------------------
(* store: operation builder *)

linkOp(l) == [Kind |-> "link", Source |-> l.To, Dest |-> AbsPath(l.From), Track |-> TRUE]
fileOp(f) == [Kind |-> "file", Source |-> f.Source, Dest |-> AbsPath(f.Dest), Track |-> f.Tracked]
dirOp(d) == [Kind |-> "dir", Source |-> 0, Dest |-> AbsPath(d.Path), Track |-> d.Tracked]

\* the destinations of the manifest as spelt, in the order of the operations
RawDests(m) ==
    [i \in 1..Len(m.Links) |-> m.Links[i].From]
    \o [i \in 1..Len(m.Files) |-> m.Files[i].Dest]
    \o [i \in 1..Len(m.Dirs) |-> m.Dirs[i].Path]

\* buildManifestOps whose seenDest holds the destinations as spelt
buildManifestOps_RawDest(m) ==
    LET all == [i \in 1..Len(m.Links) |-> linkOp(m.Links[i])]
               \o [i \in 1..Len(m.Files) |-> fileOp(m.Files[i])]
               \o [i \in 1..Len(m.Dirs) |-> dirOp(m.Dirs[i])]
        escapes(i) == all[i].Kind # "dir" /\ all[i].Source = EscapingSource
        dup(i) == \E j \in 1..(i - 1) : RawDests(m)[j] = RawDests(m)[i]
        bad == { i \in DOMAIN all : escapes(i) \/ dup(i) }
    IN  IF bad = {} THEN [ops |-> all, err |-> ""]
        ELSE LET i == CHOOSE x \in bad : \A y \in bad : x <= y
             IN  [ops |-> << >>,
                  err |-> IF escapes(i) THEN "path escapes source root"
                          ELSE "duplicate destination in manifest"]

\* buildManifestOps without the seenDest check of add
buildManifestOps_NoSeenDest(m) ==
    LET all == [i \in 1..Len(m.Links) |-> linkOp(m.Links[i])]
               \o [i \in 1..Len(m.Files) |-> fileOp(m.Files[i])]
               \o [i \in 1..Len(m.Dirs) |-> dirOp(m.Dirs[i])]
    IN  IF \E i \in DOMAIN all : all[i].Kind # "dir" /\ all[i].Source = EscapingSource
        THEN [ops |-> << >>, err |-> "path escapes source root"]
        ELSE [ops |-> all, err |-> ""]

\* buildManifestOps: links, then files, then dirs; the first offending
\* entry decides the error
buildManifestOps(m) ==
    LET all == [i \in 1..Len(m.Links) |-> linkOp(m.Links[i])]
               \o [i \in 1..Len(m.Files) |-> fileOp(m.Files[i])]
               \o [i \in 1..Len(m.Dirs) |-> dirOp(m.Dirs[i])]
        escapes(i) == all[i].Kind # "dir" /\ all[i].Source = EscapingSource
        dup(i) == \E j \in 1..(i - 1) : all[j].Dest = all[i].Dest
        bad == { i \in DOMAIN all : escapes(i) \/ dup(i) }
    IN  IF bad = {} THEN [ops |-> all, err |-> ""]
        ELSE LET i == CHOOSE x \in bad : \A y \in bad : x <= y
             IN  [ops |-> << >>,
                  err |-> IF escapes(i) THEN "path escapes source root"
                          ELSE "duplicate destination in manifest"]

\* the sources with a destination strictly inside another destination of the same
\* manifest
NestedLocs ==
    { loc \in AllLocs :
        LET ops == buildManifestOps(Manifests[loc].m).ops
        IN  \E i, j \in DOMAIN ops :
                /\ Len(ops[i].Dest) < Len(ops[j].Dest)
                /\ IsPrefix(ops[i].Dest, ops[j].Dest) }

\* the sources whose destinations lie apart from one another
Locs == AllLocs \ NestedLocs

----------------------------------------------------------------------------
(* store: state and results *)

DefaultConfig == [Backup |-> TRUE, Clean |-> TRUE]

\* DefaultLock that keeps the state of a loaded source
DefaultLock_Loaded ==
    [State |-> "loaded", Kind |-> "local", Loc |-> 0, Name |-> "",
     Files |-> << >>, Dirs |-> << >>]

DefaultLock ==
    [State |-> "unloaded", Kind |-> "local", Loc |-> 0, Name |-> "",
     Files |-> << >>, Dirs |-> << >>]

\* store.Options as the commands build it; Force subsumes DiscardChanges
Options ==
    { [Force |-> FALSE, DiscardChanges |-> FALSE],
      [Force |-> FALSE, DiscardChanges |-> TRUE],
      [Force |-> TRUE, DiscardChanges |-> FALSE] }

NoOptions == [Force |-> FALSE, DiscardChanges |-> FALSE]

\* the load and reload commands have the force flag only
LoadOptions == { o \in Options : ~o.DiscardChanges }

\* Options.DiscardChanges permits removing a modified managed object
AllowModified(opts) == opts.Force \/ opts.DiscardChanges

PathsOf(files) == { files[i].Path : i \in DOMAIN files }

\* the managed paths that exist with a digest other than the recorded one
Drifted(f, files) ==
    { files[i].Path : i \in { j \in DOMAIN files :
                                /\ Lstat(f, files[j].Path) = "ok"
                                /\ ~IsZero(files[j].Curr)
                                /\ files[j].Curr # ForPath(f, files[j].Path) } }

NoOrig == [p \in Paths |-> {}]
NoCarried == [p \in Paths |-> FALSE]

\* result of a call, with what the call did on the way
Result(op, err) ==
    [op |-> op, err |-> err, opts |-> NoOptions, loc |-> 0,
     oldPaths |-> {}, newDests |-> {},
     removed |-> {}, restored |-> {}, backedUp |-> {}, cleared |-> {}, made |-> {}, autoDirs |-> {},
     drifted |-> {}, carriedPaths |-> {},
     count |-> 0, unloadedCount |-> 0, removedBackups |-> {}, phase |-> "",
     status |-> << >>]

\* no library function is called on its own
NoCall == [fn |-> ""]

\* no call is in progress or waiting to be reported
Idle == Result("idle", "")

ErrNotInstalled == "tohru is not installed"
ErrAlreadyInstalled == "tohru is already installed"

----------------------------------------------------------------------------
(* store: Load / Reload *)

\* switchWithConfig(cfg, source, force), with c the configuration it was given.
\* An error return leaves what the call had written so far: the managed paths
\* already unloaded, the unloaded lock file once it was saved, the operations
\* already applied and their backups.
switchWithConfig(c, loc, opts, opname) ==
    LET loaded == Manifests[loc]
        m      == loaded.m
        built  == buildManifestOps(m)
        ops    == built.ops
        early  == IF loaded.err # "" THEN loaded.err
                  ELSE IF ~EnsureCompatible(m.Version) THEN "unsupported source version"
                  ELSE built.err
        r0     == [Result(opname, "") EXCEPT !.opts = opts, !.loc = loc]
    IN  IF early # ""
        THEN /\ res' = [Result(opname, early) EXCEPT !.phase = "resolve", !.loc = loc]
             /\ UNCHANGED <<lock, fs, bk, orig, carried>>
        ELSE
        \E un \in { unloadManagedPaths(fs, bk, lock.Files, { ops[i].Dest : i \in DOMAIN ops },
                                        opts.Force, AllowModified(opts)) } :
        \E cl \in { cleanupTrackedAutoDirs(un.fs, lock.Dirs) } :
        \E ap \in { applyManifestOps(cl.fs, bk, c.Backup, ops, lock.Files, opts.Force) } :
        LET occupiedByNew == { ops[i].Dest : i \in DOMAIN ops }
            r1 == [r0 EXCEPT !.oldPaths = PathsOf(lock.Files), !.newDests = occupiedByNew,
                             !.removed = un.removed, !.restored = un.restored,
                             !.unloadedCount = Len(lock.Files)]
            r2 == [r1 EXCEPT !.backedUp = { p \in Paths : ap.found[p] # {} },
                             !.cleared = ap.cleared,
                             !.made = ap.made, !.autoDirs = ap.autoDirs,
                             !.count = Len(ap.tracked)]
            newLock == [State |-> "loaded", Kind |-> "local", Loc |-> loc, Name |-> m.Name,
                        Files |-> ap.tracked, Dirs |-> SortedDirs(ap.autoDirs)]
            swept == sweepIfClean(c, ap.bk, newLock.Files)
        IN  IF un.err # ""
            THEN /\ fs' = un.fs
                 /\ res' = [r1 EXCEPT !.err = un.err, !.phase = "unload"]
                 /\ UNCHANGED <<lock, bk, orig, carried>>
            ELSE IF cl.err # ""
            THEN /\ fs' = cl.fs
                 /\ res' = [r1 EXCEPT !.err = cl.err, !.phase = "unload"]
                 /\ UNCHANGED <<lock, bk, orig, carried>>
            ELSE IF ap.err # ""
            THEN /\ fs' = ap.fs
                 /\ lock' = DefaultLock
                 /\ bk' = ap.bk
                 /\ orig' = NoOrig
                 /\ carried' = NoCarried
                 /\ res' = [r2 EXCEPT !.err = ap.err, !.phase = "apply"]
            ELSE /\ fs' = ap.fs
                 /\ lock' = newLock
                 /\ bk' = swept.bk
                 /\ orig' = [p \in Paths |->
                                IF IsZero(PrevAt(ap.tracked, p)) THEN {}
                                ELSE IF ap.found[p] # {} THEN ap.found[p]
                                ELSE orig[p]]
                 /\ carried' = [p \in Paths |->
                                   /\ ~IsZero(PrevAt(ap.tracked, p))
                                   /\ ap.found[p] = {}]
                 /\ res' = [r2 EXCEPT !.removedBackups = swept.removed]

\* Store.Load: installs the store when missing, then switches
Load(loc, opts) ==
    /\ res = Idle
    /\ installed' = TRUE
    /\ cfg' = cfg
    /\ switchWithConfig(cfg, loc, opts, "Load")
    /\ UNCHANGED <<ext, call>>

\* Store.Reload
Reload(opts) ==
    /\ res = Idle
    /\ UNCHANGED <<installed, cfg, ext, call>>
    /\ IF ~installed
       THEN /\ res' = [Result("Reload", ErrNotInstalled) EXCEPT !.opts = opts]
            /\ UNCHANGED <<lock, fs, bk, orig, carried>>
       ELSE IF lock.State # "loaded"
       THEN /\ res' = [Result("Reload", "no loaded source to reload") EXCEPT !.opts = opts]
            /\ UNCHANGED <<lock, fs, bk, orig, carried>>
       ELSE IF lock.Loc = 0
       THEN /\ res' = [Result("Reload", "loaded source location is empty") EXCEPT !.opts = opts]
            /\ UNCHANGED <<lock, fs, bk, orig, carried>>
       ELSE switchWithConfig(cfg, lock.Loc, opts, "Reload")

----------------------------------------------------------------------------
(* store: Install, Unload, Tidy, Status *)

\* Store.Install
Install ==
    /\ res = Idle
    /\ UNCHANGED <<fs, bk, orig, carried, ext, call>>
    /\ IF installed
       THEN /\ res' = Result("Install", ErrAlreadyInstalled)
            /\ UNCHANGED <<installed, cfg, lock>>
       ELSE /\ installed' = TRUE
            /\ cfg' = DefaultConfig
            /\ lock' = DefaultLock
            /\ res' = Result("Install", "")

\* Store.Unload
Unload(opts) ==
    \E un \in { IF Len(lock.Files) > 0
                 THEN unloadManagedPaths(fs, bk, lock.Files, {}, opts.Force, AllowModified(opts))
                 ELSE [fs |-> fs, err |-> "", removed |-> {}, restored |-> {}] } :
    \E cl \in { cleanupTrackedAutoDirs(un.fs, lock.Dirs) } :
    LET newLock == DefaultLock
        swept == sweepIfClean(cfg, bk, newLock.Files)
        r0 == [Result("Unload", "") EXCEPT !.opts = opts, !.loc = lock.Loc,
                                          !.oldPaths = PathsOf(lock.Files),
                                          !.drifted = Drifted(fs, lock.Files),
                                          !.carriedPaths = { p \in Paths : carried[p] }]
        r1 == [r0 EXCEPT !.removed = un.removed, !.restored = un.restored]
    IN  /\ res = Idle
        /\ UNCHANGED <<installed, cfg, ext, call>>
        /\ IF ~installed
           THEN /\ res' = [r0 EXCEPT !.err = ErrNotInstalled]
                /\ UNCHANGED <<lock, fs, bk, orig, carried>>
           ELSE IF un.err # ""
           THEN /\ res' = [r1 EXCEPT !.err = un.err]
                /\ fs' = un.fs
                /\ UNCHANGED <<lock, bk, orig, carried>>
           ELSE IF cl.err # ""
           THEN /\ res' = [r1 EXCEPT !.err = cl.err]
                /\ fs' = cl.fs
                /\ UNCHANGED <<lock, bk, orig, carried>>
           ELSE /\ res' = [r1 EXCEPT !.count = Len(lock.Files), !.removedBackups = swept.removed]
                /\ fs' = cl.fs
                /\ lock' = newLock
                /\ bk' = swept.bk
                /\ orig' = NoOrig
                /\ carried' = NoCarried

\* Tidy that saves a default lock file before the sweep, as Unload does
Tidy_SavesLock ==
    /\ res = Idle
    /\ UNCHANGED <<installed, cfg, fs, orig, carried, ext, call>>
    /\ IF ~installed
       THEN /\ res' = Result("Tidy", ErrNotInstalled)
            /\ UNCHANGED <<bk, lock>>
       ELSE /\ lock' = DefaultLock
            /\ bk' = cleanBackupStore(bk, DefaultLock.Files).bk
            /\ res' = [Result("Tidy", "") EXCEPT !.count = Cardinality(DOMAIN bk),
                                                 !.removedBackups = DOMAIN bk]

\* Store.Tidy
Tidy ==
    LET swept == cleanBackupStore(bk, lock.Files)
    IN  /\ res = Idle
        /\ UNCHANGED <<installed, cfg, lock, fs, orig, carried, ext, call>>
        /\ IF ~installed
           THEN /\ res' = Result("Tidy", ErrNotInstalled)
                /\ bk' = bk
           ELSE /\ res' = [Result("Tidy", "") EXCEPT !.count = Cardinality(swept.removed),
                                                    !.removedBackups = swept.removed]
                /\ bk' = swept.bk

\* scanBackupStore: available keys and broken keys
scanBackupStore(b) ==
    [available |-> { k \in DOMAIN b : b[k] # {} },
     broken    |-> { k \in DOMAIN b : b[k] = {} }]

\* StatusSnapshot.OrphanedBackups: the available keys that no entry references
OrphanedBackups(b, files) == scanBackupStore(b).available \ Referenced(files)

\* TrackedStatus that reports a missing path as missing only
TrackedStatus_MissingOnly(f, b, entry) ==
    LET exists == Lstat(f, entry.Path) = "ok"
    IN  [Path |-> entry.Path,
         PrevDigest |-> entry.Prev,
         BackupPresent |-> ~IsZero(entry.Prev) /\ entry.Prev \in scanBackupStore(b).available,
         Missing |-> ~exists,
         Drifted |-> IF ~exists THEN FALSE
                     ELSE ~IsZero(entry.Curr) /\ entry.Curr # ForPath(f, entry.Path)]

\* the TrackedStatus of one lock entry
TrackedStatus(f, b, entry) ==
    LET exists == Lstat(f, entry.Path) = "ok"
    IN  [Path |-> entry.Path,
         PrevDigest |-> entry.Prev,
         BackupPresent |-> ~IsZero(entry.Prev) /\ entry.Prev \in scanBackupStore(b).available,
         Missing |-> ~exists,
         Drifted |-> IF ~exists THEN TRUE
                     ELSE ~IsZero(entry.Curr) /\ entry.Curr # ForPath(f, entry.Path)]

\* sort.Slice(tracked, ...): the items in ascending order of Path
RECURSIVE sortTracked(_)
sortTracked(items) ==
    IF items = {} THEN << >>
    ELSE LET first == CHOOSE x \in items : \A y \in items \ {x} : PathLess(x.Path, y.Path)
         IN  << first >> \o sortTracked(items \ {first})

\* Status that reads the default lock file of a store that is not installed
Status_Uninstalled ==
    /\ res = Idle
    /\ UNCHANGED <<installed, cfg, lock, fs, bk, orig, carried, ext, call>>
    /\ IF \E i \in DOMAIN lock.Files : Lstat(fs, lock.Files[i].Path) = "enotdir"
       THEN res' = Result("Status", "snapshot tracked path")
       ELSE res' = [Result("Status", "") EXCEPT
                       !.status = sortTracked({ TrackedStatus(fs, bk, lock.Files[i]) : i \in DOMAIN lock.Files }),
                       !.removedBackups = scanBackupStore(bk).available \ Referenced(lock.Files)]

\* Store.Status
Status ==
    /\ res = Idle
    /\ UNCHANGED <<installed, cfg, lock, fs, bk, orig, carried, ext, call>>
    /\ IF ~installed
       THEN res' = Result("Status", ErrNotInstalled)
       ELSE IF \E i \in DOMAIN lock.Files : Lstat(fs, lock.Files[i].Path) = "enotdir"
       THEN res' = Result("Status", "snapshot tracked path")
       ELSE res' = [Result("Status", "") EXCEPT
                       !.status = sortTracked({ TrackedStatus(fs, bk, lock.Files[i]) : i \in DOMAIN lock.Files }),
                       !.removedBackups = OrphanedBackups(bk, lock.Files)]

----------------------------------------------------------------------------
(* the environment *)

\* the user edits config.toml
EditConfig(c) ==
    /\ res = Idle
    /\ installed
    /\ c # cfg
    /\ ext < MaxExternal
    /\ ext' = ext + 1
    /\ UNCHANGED call
    /\ cfg' = c
    /\ UNCHANGED <<installed, lock, fs, bk, res, orig, carried>>

\* another program writes a regular file at p
ExternalWrite(p, c) ==
    /\ res = Idle
    /\ ext < MaxExternal
    /\ StatDir(fs, Parent(p)) = "dir"
    /\ fs[p].type \in {"none", "file"}
    /\ fs[p] # FileNode(c)
    /\ fs' = [fs EXCEPT ![p] = FileNode(c)]
    /\ ext' = ext + 1
    /\ UNCHANGED call
    /\ UNCHANGED <<installed, cfg, lock, bk, res, orig, carried>>

\* another program removes the object at p
ExternalRemove(p) ==
    /\ res = Idle
    /\ ext < MaxExternal
    /\ fs[p].type # "none"
    /\ fs' = RemovePath(fs, p)
    /\ ext' = ext + 1
    /\ UNCHANGED call
    /\ UNCHANGED <<installed, cfg, lock, bk, res, orig, carried>>

\* the command has reported the result of its store call and exits
Exit ==
    /\ res # Idle
    /\ res' = Idle
    /\ UNCHANGED <<installed, cfg, lock, fs, bk, orig, carried, ext, call>>

----------------------------------------------------------------------------
(* specification *)

\* the target filesystem before tohru is first run
InitialFs ==
    { f \in [Paths -> {NoNode, DirNode, FileNode(3), LinkNode(0)}] :
        /\ \A p \in Paths : Ancestors(p) # {} => f[p].type \in {"none", "file"}
        /\ \A p \in Paths : f[p].type # "none" => \A a \in Ancestors(p) : f[a].type = "dir"
        /\ f[P2].type # "symlink" }

Init ==
    /\ installed = FALSE
    /\ cfg = DefaultConfig
    /\ lock = DefaultLock
    /\ fs \in InitialFs
    /\ bk = << >>
    /\ res = Idle
    /\ orig = NoOrig
    /\ carried = NoCarried
    /\ ext = 0
    /\ call = NoCall

Next ==
    \/ Install
    \/ \E loc \in Locs, opts \in LoadOptions : Load(loc, opts)
    \/ \E opts \in LoadOptions : Reload(opts)
    \/ \E opts \in Options : Unload(opts)
    \/ Tidy
    \/ Status
    \/ \E c \in [Backup : BOOLEAN, Clean : BOOLEAN] : EditConfig(c)
    \/ \E p \in Paths, c \in ExtContents : ExternalWrite(p, c)
    \/ \E p \in Paths : ExternalRemove(p)
    \/ Exit

Spec == Init /\ [][Next]_vars

TypeOK ==
    /\ installed \in BOOLEAN
    /\ \A p \in Paths : fs[p].type # "none" => \A a \in Ancestors(p) : fs[a].type = "dir"

----------------------------------------------------------------------------
(* the store calls on a target that no other program touches, with the     *)
(* configuration Install writes; every source directory may be loaded      *)

NextUndisturbed ==
    \/ Install
    \/ \E loc \in AllLocs, opts \in LoadOptions : Load(loc, opts)
    \/ \E opts \in LoadOptions : Reload(opts)
    \/ \E opts \in Options : Unload(opts)
    \/ Tidy
    \/ Status
    \/ Exit

SpecUndisturbed == Init /\ [][NextUndisturbed]_vars

----------------------------------------------------------------------------
(* the store left alone while a library function is called on its own *)

storeVars == <<installed, cfg, lock, fs, bk, res, orig, carried, ext>>

StoreUnused ==
    /\ installed = FALSE
    /\ cfg = DefaultConfig
    /\ lock = DefaultLock
    /\ fs = [p \in Paths |-> NoNode]
    /\ bk = << >>
    /\ res = Idle
    /\ orig = NoOrig
    /\ carried = NoCarried
    /\ ext = 0

----------------------------------------------------------------------------
(* digest: typed digest values and their text form *)

\* strings are sequences of characters; a letter, the separator, a blank
Chars == { "a", ":", " " }

\* longest algorithm and sum of a digest value
MaxField == 2

\* longest text handed to Parse directly
MaxRaw == 3

StringsOver(alphabet, n) == UNION { [1..k -> alphabet] : k \in 0..n }

\* the kinds, each written with one character
KindNull == << "n" >>
KindFile == << "f" >>
KindDir == << "d" >>
KindSymlink == << "s" >>

\* strings.TrimSpace
RECURSIVE TrimLeft(_), TrimRight(_)
TrimLeft(str) ==
    IF str # << >> /\ Head(str) = " " THEN TrimLeft(Tail(str)) ELSE str

TrimRight(str) ==
    IF str # << >> /\ str[Len(str)] = " "
    THEN TrimRight(SubSeq(str, 1, Len(str) - 1)) ELSE str

TrimSpace(str) == TrimRight(TrimLeft(str))

\* strings.Split(str, ":")
RECURSIVE Split(_)
Split(str) ==
    IF \A i \in DOMAIN str : str[i] # ":" THEN << str >>
    ELSE LET i == CHOOSE k \in DOMAIN str :
                      str[k] = ":" /\ \A j \in 1..(k - 1) : str[j] # ":"
         IN  << SubSeq(str, 1, i - 1) >> \o Split(SubSeq(str, i + 1, Len(str)))

ZeroDigest == [Kind |-> << >>, Algorithm |-> << >>, Sum |-> << >>]

\* Digest.IsZero
IsZeroDigest(d) == d.Kind = << >> /\ d.Algorithm = << >> /\ d.Sum = << >>

validateKind(kind) == kind \in { KindNull, KindFile, KindDir, KindSymlink }

\* digest.New
New(kind, algorithm, sum) ==
    IF ~validateKind(kind)
    THEN [d |-> ZeroDigest, err |-> "unsupported digest kind"]
    ELSE IF kind = KindNull
    THEN IF algorithm # << >> \/ sum # << >>
         THEN [d |-> ZeroDigest, err |-> "null digest must not include algorithm or sum"]
         ELSE [d |-> [Kind |-> KindNull, Algorithm |-> << >>, Sum |-> << >>], err |-> ""]
    ELSE IF TrimSpace(algorithm) = << >>
    THEN [d |-> ZeroDigest, err |-> "digest algorithm is required"]
    ELSE IF TrimSpace(sum) = << >>
    THEN [d |-> ZeroDigest, err |-> "digest sum is required"]
    ELSE [d |-> [Kind |-> kind, Algorithm |-> TrimSpace(algorithm), Sum |-> TrimSpace(sum)],
          err |-> ""]

\* Digest.String that leaves the algorithm out
DigestString_NoAlgorithm(d) ==
    IF IsZeroDigest(d) THEN << >>
    ELSE IF d.Kind = KindNull THEN KindNull
    ELSE d.Kind \o << ":" >> \o d.Sum

\* Digest.String
DigestString(d) ==
    IF IsZeroDigest(d) THEN << >>
    ELSE IF d.Kind = KindNull THEN KindNull
    ELSE d.Kind \o << ":" >> \o d.Algorithm \o << ":" >> \o d.Sum

\* digest.Parse
Parse(raw) ==
    LET r == TrimSpace(raw)
        parts == Split(r)
    IN  IF r = << >> THEN [d |-> ZeroDigest, err |-> ""]
        ELSE IF r = KindNull
        THEN [d |-> [Kind |-> KindNull, Algorithm |-> << >>, Sum |-> << >>], err |-> ""]
        ELSE IF Len(parts) # 3 THEN [d |-> ZeroDigest, err |-> "invalid digest"]
        ELSE New(parts[1], parts[2], parts[3])

\* the digest values and the texts the functions are called with
DigestInputs ==
    [Kind : { << >>, KindNull, KindFile, KindDir, KindSymlink },
     Algorithm : StringsOver(Chars, MaxField),
     Sum : StringsOver(Chars, MaxField)]

RawInputs == StringsOver(Chars \cup { "f", "n" }, MaxRaw)

NoOut == [d |-> ZeroDigest, err |-> ""]

InitDigest ==
    /\ StoreUnused
    /\ call \in { [fn |-> "Digest", d |-> d, raw |-> << >>, out |-> NoOut] : d \in DigestInputs }

\* d.String()
StringCall ==
    /\ call.fn = "Digest"
    /\ call' = [call EXCEPT !.fn = "String", !.raw = DigestString(call.d)]
    /\ UNCHANGED storeVars

\* Parse(d.String())
ParseCall ==
    /\ call.fn = "String"
    /\ call' = [call EXCEPT !.fn = "Parse", !.out = Parse(call.raw)]
    /\ UNCHANGED storeVars

\* Parse(raw) of a text that comes from elsewhere
ParseRaw(raw) ==
    /\ call.fn = "Digest"
    /\ call.d = ZeroDigest
    /\ call' = [call EXCEPT !.fn = "ParseRaw", !.raw = raw, !.out = Parse(raw)]
    /\ UNCHANGED storeVars

NextDigest ==
    \/ StringCall
    \/ ParseCall
    \/ \E raw \in RawInputs : ParseRaw(raw)

SpecDigest == InitDigest /\ [][NextDigest]_vars

----------------------------------------------------------------------------
(* digest: the hash of a directory, as hashDir computes it *)

\* the sequences that list every element of S once
Orderings(S) ==
    { seq \in [1..Cardinality(S) -> S] :
        \A i, j \in DOMAIN seq : i # j => seq[i] # seq[j] }

\* the less function of the sort in hashDir: records[i].RelPath < records[j].RelPath
RecordLess(r1, r2) == PathLess(r1[1], r2[1])

\* sort.Slice(records, less), as an insertion of each record in turn
RECURSIVE InsertRecord(_, _), sortRecords(_)
InsertRecord(sorted, rec) ==
    IF sorted = << >> THEN << rec >>
    ELSE IF RecordLess(rec, Head(sorted)) THEN << rec >> \o sorted
    ELSE << Head(sorted) >> \o InsertRecord(Tail(sorted), rec)

sortRecords(records) ==
    IF records = << >> THEN << >>
    ELSE InsertRecord(sortRecords(SubSeq(records, 1, Len(records) - 1)), records[Len(records)])

\* what hashDir writes to the hash for the records in the given order:
\* RelPath, Type and Payload of each (the sum is a function of this text)
RECURSIVE WriteRecords(_)
WriteRecords(records) ==
    IF records = << >> THEN << >>
    ELSE << Head(records)[1], Head(records)[2], Head(records)[3] >> \o WriteRecords(Tail(records))

\* hashDir that hashes the records in the order the walk found them
hashDirWalk_Unsorted(visited) == WriteRecords(visited)

\* hashDir on the records in the order the walk appended them
hashDirWalk(visited) == WriteRecords(sortRecords(visited))

\* the directories hashed: every tree over Paths below the root
HashedDirs ==
    { f \in [Paths -> {NoNode, DirNode, FileNode(1), FileNode(2), LinkNode(1)}] :
        \A p \in Paths : f[p].type # "none" => \A a \in Ancestors(p) : f[a].type = "dir" }

\* two directories with the records of f, walked in the orders first and second
InitHash ==
    /\ StoreUnused
    /\ call \in UNION { { [fn |-> "WalkDir", records |-> R,
                            first |-> v1, second |-> v2, sums |-> << >>] :
                              v1 \in Orderings(R), v2 \in Orderings(R) } :
                        R \in { hashDir(f, Root) : f \in HashedDirs } }

\* hashDir of the first directory
HashFirst ==
    /\ call.fn = "WalkDir"
    /\ call' = [call EXCEPT !.fn = "hashDir", !.sums = << hashDirWalk(call.first) >>]
    /\ UNCHANGED storeVars

\* hashDir of the second directory
HashSecond ==
    /\ call.fn = "hashDir" /\ Len(call.sums) = 1
    /\ call' = [call EXCEPT !.sums = Append(@, hashDirWalk(call.second))]
    /\ UNCHANGED storeVars

NextHash == HashFirst \/ HashSecond

SpecHash == InitHash /\ [][NextHash]_vars

----------------------------------------------------------------------------
(* manifest: import resolution, one call of ctx.load per step *)

\* the manifest files of the source directory resolved; 1 is tohru.toml
ManifestFiles == { 1, 2, 3 }

\* most imports in one manifest file
MaxImports == 2

\* the import lists a manifest file can have: distinct manifest files of the
\* directory, each import with a platform filter that applies or not
ImportLists ==
    UNION { { imps \in [1..k -> { Imp(x, a) : x \in ManifestFiles, a \in BOOLEAN }] :
                \A i, j \in 1..k : i # j => imps[i].Path # imps[j].Path } :
            k \in 0..MaxImports }

ManifestNames == << "one", "two", "three" >>

\* the source directories resolved: manifest file id copies source file id
ImportDirs ==
    { [id \in ManifestFiles |->
          M(VersionCurrent, ManifestNames[id], imps[id], << >>, << F(id, P1, TRUE) >>, << >>)] :
      imps \in [ManifestFiles -> ImportLists] }

\* the deferred delete(ctx.inStack, manifestPath) that keeps the path
leaveStack_Keep(inStack, id) == inStack

\* the deferred delete(ctx.inStack, manifestPath) of ctx.load
leaveStack(inStack, id) == inStack \ { id }

NoLoad == [m |-> EmptyManifest, err |-> "", cycle |-> << >>]

InitImports ==
    /\ StoreUnused
    /\ call \in { [fn |-> "loadWithImports", dir |-> dir, pending |-> 1,
                     frames |-> << >>, inStack |-> {}, done |-> FALSE, out |-> NoLoad] :
                       dir \in ImportDirs }

\* ctx.load(path) is entered: the cycle check, then the push on the stack
LoadEnter ==
    /\ call.fn = "loadWithImports" /\ ~call.done /\ call.pending # 0
    /\ UNCHANGED storeVars
    /\ IF call.pending \in call.inStack
       THEN call' = [call EXCEPT
                        !.done = TRUE, !.pending = 0, !.frames = << >>, !.inStack = {},
                        !.out = [m |-> EmptyManifest, err |-> "manifest import cycle detected",
                                 cycle |-> [i \in DOMAIN call.frames |-> call.frames[i].id]
                                               \o << call.pending >>]]
       ELSE call' = [call EXCEPT
                        !.pending = 0,
                        !.inStack = @ \cup { call.pending },
                        !.frames = Append(@, [id |-> call.pending, next |-> 1,
                                              merged |-> EmptyManifest])]

\* one turn of the loop over current.Imports: an import that does not apply
\* is skipped, one that applies is loaded
LoadImport ==
    /\ call.fn = "loadWithImports" /\ ~call.done /\ call.pending = 0
    /\ call.frames # << >>
    /\ LET top == call.frames[Len(call.frames)]
           imports == call.dir[top.id].Imports
       IN  /\ top.next <= Len(imports)
           /\ IF ~Applies(imports[top.next], GOOS, GOARCH)
              THEN call' = [call EXCEPT !.frames[Len(call.frames)].next = @ + 1]
              ELSE call' = [call EXCEPT !.pending = imports[top.next].Path]
    /\ UNCHANGED storeVars

\* ctx.load returns: the manifest merged over its imports goes to the caller
LoadReturn ==
    /\ call.fn = "loadWithImports" /\ ~call.done /\ call.pending = 0
    /\ call.frames # << >>
    /\ LET n == Len(call.frames)
           top == call.frames[n]
           result == Merge(top.merged, call.dir[top.id])
       IN  /\ top.next > Len(call.dir[top.id].Imports)
           /\ IF n = 1
              THEN call' = [call EXCEPT
                               !.done = TRUE, !.frames = << >>,
                               !.inStack = leaveStack(@, top.id),
                               !.out = [m |-> result, err |-> "", cycle |-> << >>]]
              ELSE call' = [call EXCEPT
                               !.inStack = leaveStack(@, top.id),
                               !.frames = [SubSeq(@, 1, n - 1) EXCEPT
                                              ![n - 1].merged = Merge(@, result),
                                              ![n - 1].next = @ + 1]]
    /\ UNCHANGED storeVars

NextImports == LoadEnter \/ LoadImport \/ LoadReturn

\* the resolution is one sequential call: it goes on while it can
SpecImports == InitImports /\ [][NextImports]_vars /\ WF_vars(NextImports)

----------------------------------------------------------------------------
(* store: switchWithConfig one write at a time, and the process stopping *)

\* the loop state of applyManifestOps before its first operation
ApplyStart(f, b) ==
    [fs |-> f, bk |-> b, tracked |-> << >>, autoDirs |-> {}, err |-> "",
     found |-> [p \in Paths |-> {}], cleared |-> {}, made |-> {}]

\* the call has returned err to the command
Returned(c, err) == [fn |-> "switchWithConfig", pc |-> "returned", loc |-> c.loc, err |-> err]

InitSwitch == Init

\* Store.Load up to LoadLock: EnsureInstalled, manifest.Load,
\* EnsureCompatible, buildManifestOps, oldByPath, occupiedByNew
SwitchBegin(loc, force) ==
    LET loaded == Manifests[loc]
        built  == buildManifestOps(loaded.m)
        early  == IF loaded.err # "" THEN loaded.err
                  ELSE IF ~EnsureCompatible(loaded.m.Version) THEN "unsupported source version"
                  ELSE built.err
    IN  /\ call = NoCall
        /\ installed' = TRUE
        /\ call' = IF early # "" THEN Returned([loc |-> loc], early)
                   ELSE [fn |-> "switchWithConfig", pc |-> "unload", loc |-> loc, force |-> force,
                         name |-> loaded.m.Name, ops |-> built.ops,
                         oldLock |-> lock, i |-> 0, st |-> ApplyStart(fs, bk), err |-> ""]
        /\ UNCHANGED <<cfg, lock, fs, bk, res, orig, carried, ext>>

\* unloadManagedPaths and cleanupTrackedAutoDirs on the old lock file
SwitchUnload ==
    /\ call.fn = "switchWithConfig" /\ call.pc = "unload"
    /\ \E un \in { unloadManagedPaths(fs, bk, call.oldLock.Files,
                                      { call.ops[i].Dest : i \in DOMAIN call.ops },
                                      call.force, call.force) } :
       \E cl \in { cleanupTrackedAutoDirs(un.fs, call.oldLock.Dirs) } :
          IF un.err # ""
          THEN fs' = un.fs /\ call' = Returned(call, un.err)
          ELSE /\ fs' = cl.fs
               /\ call' = IF cl.err # "" THEN Returned(call, cl.err)
                          ELSE [call EXCEPT !.pc = "checkpoint"]
    /\ UNCHANGED <<installed, cfg, lock, bk, res, orig, carried, ext>>

\* a switch that goes on to apply the new source without saving the
\* unloaded lock file
SwitchCheckpoint_Skip ==
    /\ call.fn = "switchWithConfig" /\ call.pc = "checkpoint"
    /\ call' = [call EXCEPT !.pc = "apply", !.i = 1, !.st = ApplyStart(fs, bk)]
    /\ UNCHANGED <<installed, cfg, lock, fs, bk, res, orig, carried, ext>>

\* s.SaveLock(unloaded) before applyManifestOps
SwitchCheckpoint ==
    /\ call.fn = "switchWithConfig" /\ call.pc = "checkpoint"
    /\ lock' = DefaultLock
    /\ call' = [call EXCEPT !.pc = "apply", !.i = 1, !.st = ApplyStart(fs, bk)]
    /\ UNCHANGED <<installed, cfg, fs, bk, res, orig, carried, ext>>

\* one iteration of the loop of applyManifestOps
SwitchApply ==
    /\ call.fn = "switchWithConfig" /\ call.pc = "apply"
    /\ call.i <= Len(call.ops)
    /\ \E st \in { applyOp(call.st, call.ops[call.i], call.oldLock.Files, cfg.Backup, call.force) } :
          /\ fs' = st.fs
          /\ bk' = st.bk
          /\ call' = IF st.err # "" THEN Returned(call, st.err)
                     ELSE [call EXCEPT !.i = @ + 1, !.st = st]
    /\ UNCHANGED <<installed, cfg, lock, res, orig, carried, ext>>

\* s.SaveLock(newLock) after the last operation
SwitchSave ==
    /\ call.fn = "switchWithConfig" /\ call.pc = "apply"
    /\ call.i > Len(call.ops)
    /\ lock' = [State |-> "loaded", Kind |-> "local", Loc |-> call.loc, Name |-> call.name,
                Files |-> call.st.tracked, Dirs |-> SortedDirs(call.st.autoDirs)]
    /\ call' = [call EXCEPT !.pc = "sweep"]
    /\ UNCHANGED <<installed, cfg, fs, bk, res, orig, carried, ext>>

\* the sweep of the backup store and the return of the LoadResult
SwitchSweep ==
    /\ call.fn = "switchWithConfig" /\ call.pc = "sweep"
    /\ bk' = sweepIfClean(cfg, bk, lock.Files).bk
    /\ call' = Returned(call, "")
    /\ UNCHANGED <<installed, cfg, lock, fs, res, orig, carried, ext>>

\* the command has reported the result and exits
SwitchExit ==
    /\ call.fn = "switchWithConfig" /\ call.pc = "returned"
    /\ call' = NoCall
    /\ UNCHANGED storeVars

\* the process is terminated between two writes of the call; what it has
\* written stays
Stop ==
    /\ call.fn = "switchWithConfig" /\ call.pc # "returned"
    /\ call' = NoCall
    /\ UNCHANGED storeVars

NextSwitch ==
    \/ \E loc \in Locs, force \in BOOLEAN : SwitchBegin(loc, force)
    \/ SwitchUnload
    \/ SwitchCheckpoint
    \/ SwitchApply
    \/ SwitchSave
    \/ SwitchSweep
    \/ SwitchExit
    \/ Stop

SpecSwitch == InitSwitch /\ [][NextSwitch]_vars

----------------------------------------------------------------------------
(* store: applyManifestOps on its own, over targets and backup stores that *)
(* earlier runs may have left in any condition                             *)

\* the operations handed to applyManifestOps, one at a time
ApplyOps ==
    { [Kind |-> "link", Source |-> 1, Dest |-> d, Track |-> t] : d \in Paths, t \in BOOLEAN }
    \cup { [Kind |-> "file", Source |-> x, Dest |-> d, Track |-> t] :
             x \in {0, 1}, d \in Paths, t \in BOOLEAN }
    \cup { [Kind |-> "dir", Source |-> 0, Dest |-> d, Track |-> t] : d \in Paths, t \in BOOLEAN }

\* an object that is not the one its backup key names
DamagedObject == { << << >>, "file", 9 >> }

\* backups/ as earlier runs may have left it for the object at dest: empty,
\* holding that object under its digest, or holding another object there
BackupStores(f, dest) ==
    IF f[dest].type = "none" THEN { << >> }
    ELSE { << >>,
           PutBackup(<< >>, ForPath(f, dest), ObjectAt(f, dest)),
           PutBackup(<< >>, ForPath(f, dest), DamagedObject) }

\* oldByPath: no entry at dest, or one with or without a prev
OldEntries(dest) ==
    { << >>,
      << [Path |-> dest, Curr |-> NoDigest, Prev |-> NoDigest] >>,
      << [Path |-> dest, Curr |-> NoDigest, Prev |-> DigestOfObject(DamagedObject)] >> }

InitApply ==
    /\ StoreUnused
    /\ \E f \in InitialFs, op \in ApplyOps, backup \in BOOLEAN, force \in BOOLEAN :
         \E b \in BackupStores(f, op.Dest), old \in OldEntries(op.Dest) :
            call = [fn |-> "applyManifestOps", f |-> f, b |-> b, backup |-> backup,
                    op |-> op, oldFiles |-> old, force |-> force,
                    done |-> FALSE, out |-> ApplyStart(f, b)]

\* applyManifestOps(store, cfg, [op], oldByPath, force)
ApplyCall ==
    /\ call.fn = "applyManifestOps" /\ ~call.done
    /\ call' = [call EXCEPT
                    !.done = TRUE,
                    !.out = applyManifestOps(call.f, call.b, call.backup, << call.op >>,
                                             call.oldFiles, call.force)]
    /\ UNCHANGED storeVars

NextApply == ApplyCall

SpecApply == InitApply /\ [][NextApply]_vars

----------------------------------------------------------------------------
(* store: persistBackupObject and restoreBackupObject called on their own,  *)
(* on any target and any backups/ directory                                 *)

\* the objects a target can hold at a path
StoredObjects == { ObjectAt(f, p) : f \in InitialFs, p \in Paths } \ { {} }

\* the digests handed to the two functions: none, or that of an object
ObjectDigests == { NoDigest } \cup { DigestOfObject(obj) : obj \in StoredObjects }

\* backups/ with respect to the key d: empty, holding under d an object that
\* hashes to d, or holding under d an object that does not
BackupsFor(d) ==
    IF IsZero(d) THEN { << >> }
    ELSE { << >>, PutBackup(<< >>, d, DamagedObject) }
         \cup { PutBackup(<< >>, d, obj) :
                  obj \in { o \in StoredObjects : DigestOfObject(o) = d } }

InitObjects ==
    /\ StoreUnused
    /\ \E f \in InitialFs, p \in Paths, d \in ObjectDigests, force \in BOOLEAN :
         \E b \in BackupsFor(d) :
            \/ /\ ~force
               /\ call = [fn |-> "persistBackupObject", f |-> f, b |-> b, path |-> p,
                          d |-> d, force |-> force, done |-> FALSE,
                          out |-> [bk |-> b, prev |-> NoDigest, err |-> ""]]
            \/ call = [fn |-> "restoreBackupObject", f |-> f, b |-> b, path |-> p,
                       d |-> d, force |-> force, done |-> FALSE,
                       out |-> [fs |-> f, err |-> "", restored |-> FALSE]]

\* persistBackupObject(store, lock.Object{Path: path, Digest: d})
PersistCall ==
    /\ call.fn = "persistBackupObject" /\ ~call.done
    /\ call' = [call EXCEPT
                    !.done = TRUE,
                    !.out = persistBackupObject(call.b, call.f, call.path, call.d)]
    /\ UNCHANGED storeVars

\* restoreBackupObject(store, &lock.Object{Digest: d}, path, force)
RestoreCall ==
    /\ call.fn = "restoreBackupObject" /\ ~call.done
    /\ call' = [call EXCEPT
                    !.done = TRUE,
                    !.out = restoreBackupObject(call.b, call.f, call.d, call.path, call.force)]
    /\ UNCHANGED storeVars

NextObjects == PersistCall \/ RestoreCall

SpecObjects == InitObjects /\ [][NextObjects]_vars

----------------------------------------------------------------------------
(* manifest: Load of a source directory as a function of its manifest      *)
(* files: the scalar fields and import lists vary, or the platform lists   *)
(* and the targets of the imports of tohru.toml do                          *)

ManifestIds == { 1, 2, 3 }

FieldValues == << << "0.1.0", "0.1.1", "0.1.2" >>,
                  << "one", "two", "three" >>,
                  << "about one", "about two", "about three" >> >>

\* the links, files and dirs a manifest file declares itself, marked with
\* its id
OwnEntries(id, imports, version, name, description) ==
    [ M(version, name, imports, << L(id, P1) >>, << F(id, P2, TRUE) >>, << D(P21, id = 1) >>)
        EXCEPT !.Description = description ]

\* import lists of at most two imports drawn from the set imps
ListsOver(imps) ==
    { << >> } \cup { << a >> : a \in imps } \cup { << a, b >> : a, b \in imps }

\* file 1 imports 2 and 3, file 2 imports 3, each import for this platform
\* or another; every scalar field of every file is set or empty, a name may
\* be blank
ScalarDirs ==
    { [id \in ManifestIds |->
          OwnEntries(id,
                     CASE id = 1 -> i1 [] id = 2 -> i2 [] OTHER -> << >>,
                     IF id \in vs THEN FieldValues[1][id] ELSE "",
                     ns[id],
                     IF id \in ds THEN FieldValues[3][id] ELSE "")] :
      i1 \in { l \in ListsOver({ Imp(x, a) : x \in {2, 3}, a \in BOOLEAN }) :
                  \A i, j \in DOMAIN l : i # j => l[i].Path # l[j].Path },
      i2 \in ListsOver({ Imp(3, a) : a \in BOOLEAN }) \ { << Imp(3, a), Imp(3, b) >> : a, b \in BOOLEAN },
      vs \in SUBSET ManifestIds,
      ds \in SUBSET ManifestIds,
      ns \in { f \in [ManifestIds -> {"", Blank, "one", "two", "three"}] :
                 \A id \in ManifestIds : f[id] \in {"", Blank, FieldValues[2][id]} } }

OSLists == { << >>, << "linux" >>, << "Linux" >>, << "plan9" >>, << "plan9", "linux" >>,
             << Blank >>, << "" >> }

ArchLists == { << >>, << "amd64" >>, << "arm64" >> }

\* the imports of tohru.toml name file 2, tohru.toml itself, a file that
\* does not exist or a file outside the source root, under any platform lists
PlatformDirs ==
    { [id \in ManifestIds |->
          OwnEntries(id,
                     CASE id = 1 -> i1 [] id = 2 -> << Imp(3, TRUE) >> [] OTHER -> << >>,
                     FieldValues[1][id], FieldValues[2][id], FieldValues[3][id])] :
      i1 \in ListsOver({ [Path |-> x, OS |-> os, Arch |-> arch] :
                            x \in {2, 1, NoSuchFile, OutsideRoot},
                            os \in OSLists, arch \in ArchLists }) }

InitManifest ==
    /\ StoreUnused
    /\ \E dir \in ScalarDirs \cup PlatformDirs :
          call = [fn |-> "manifest.Load", dir |-> dir, done |-> FALSE,
                  out |-> [m |-> EmptyManifest, err |-> "", tree |-> NoTree]]

\* manifest.LoadWithTree(source): ctx.load on tohru.toml
LoadCall ==
    /\ call.fn = "manifest.Load" /\ ~call.done
    /\ call' = [call EXCEPT !.done = TRUE, !.out = ctxLoad(call.dir, 1, << >>)]
    /\ UNCHANGED storeVars

NextManifest == LoadCall

SpecManifest == InitManifest /\ [][NextManifest]_vars

----------------------------------------------------------------------------
(* store: the backup part of Status on any backups/ directory, in which a  *)
(* key may have lost its object, and any prev references in the lock file  *)

\* the keys under backups/
StatusKeys == ObjectDigests \ { NoDigest }

\* backups/: each key absent, holding its object, or left without it
ScannedStores ==
    UNION { [S -> { {}, DamagedObject }] : S \in SUBSET StatusKeys }

\* lock files with an entry at each of two paths, each with or without prev
ReferencingLocks ==
    { << [Path |-> P1, Curr |-> NoDigest, Prev |-> a],
         [Path |-> P2, Curr |-> NoDigest, Prev |-> c] >> :
      a \in ObjectDigests, c \in ObjectDigests }

InitStatus ==
    /\ StoreUnused
    /\ \E b \in ScannedStores, files \in ReferencingLocks :
          call = [fn |-> "Status", b |-> b, files |-> files, done |-> FALSE,
                  out |-> [orphaned |-> {}, broken |-> {}]]

\* Store.Status: scanBackupStore, then OrphanedBackups and BrokenBackups
StatusCall ==
    /\ call.fn = "Status" /\ ~call.done
    /\ call' = [call EXCEPT !.done = TRUE,
                            !.out = [orphaned |-> OrphanedBackups(call.b, call.files),
                                     broken |-> scanBackupStore(call.b).broken]]
    /\ UNCHANGED storeVars

NextStatus == StatusCall

SpecStatus == InitStatus /\ [][NextStatus]_vars

----------------------------------------------------------------------------
(* store: SaveLock one system call at a time. os.WriteFile fills the        *)
(* temporary file piece by piece, os.Rename puts it in place in one step;   *)
(* either may fail, and the process may be stopped between any two steps    *)
(* and run again later                                                      *)

\* most saves that are carried through in one behaviour
MaxSaves == 2

\* no file at the path
Absent == << "absent" >>

\* the lock values handed to SaveLock
SavedLocks ==
    { DefaultLock,
      [DefaultLock EXCEPT !.State = "", !.Kind = ""],
      [DefaultLock EXCEPT !.State = "loaded", !.Loc = 1, !.Name = "alpha"],
      [DefaultLock EXCEPT !.State = "loaded", !.Loc = 2, !.Name = "beta"] }

\* SaveLock: the defaults for an empty kind and state
NormaliseLock(lck) ==
    [lck EXCEPT !.Kind = IF @ = "" THEN "local" ELSE @,
                !.State = IF @ = "" THEN "unloaded" ELSE @]

\* json.Marshal of a lock value, as the pieces in which it is written
Marshal(lck) == << "{", lck.State, lck.Kind, lck.Name, "}" >>

\* what decodeJSONFile makes of the data at a path
Unmarshal(data) ==
    IF data = Absent THEN "no file"
    ELSE IF Len(data) = 5 /\ data[1] = "{" /\ data[5] = "}"
    THEN [State |-> data[2], Kind |-> data[3], Name |-> data[4]]
    ELSE "unexpected end of JSON input"

InitSave ==
    /\ StoreUnused
    /\ call = [fn |-> "SaveLock", pc |-> "idle", lockPath |-> Marshal(DefaultLock),
               tmpPath |-> Absent, data |-> Marshal(DefaultLock),
               old |-> Marshal(DefaultLock), saves |-> 0, err |-> ""]

\* SaveLock(lck) is called: writeJSON marshals the value, writeData opens
\* lock.json.tmp, which creates or truncates it
SaveBegin(lck) ==
    /\ call.fn = "SaveLock" /\ call.pc = "idle" /\ call.saves < MaxSaves
    /\ call' = [call EXCEPT !.pc = "write", !.data = Marshal(NormaliseLock(lck)),
                            !.old = call.lockPath, !.tmpPath = << >>, !.err = ""]
    /\ UNCHANGED storeVars

\* writeData that writes the data to the lock path itself
WriteTmp_InPlace ==
    /\ call.fn = "SaveLock" /\ call.pc = "write"
    /\ LET n == Len(call.tmpPath) + 1
       IN  call' = [call EXCEPT !.tmpPath = SubSeq(call.data, 1, n),
                                !.lockPath = SubSeq(call.data, 1, n),
                                !.pc = IF n = Len(call.data) THEN "rename" ELSE "write"]
    /\ UNCHANGED storeVars

\* os.WriteFile(tmpPath, data): the next piece reaches the temporary file
WriteTmp ==
    /\ call.fn = "SaveLock" /\ call.pc = "write"
    /\ LET n == Len(call.tmpPath) + 1
       IN  call' = [call EXCEPT !.tmpPath = SubSeq(call.data, 1, n),
                                !.pc = IF n = Len(call.data) THEN "rename" ELSE "write"]
    /\ UNCHANGED storeVars

\* os.WriteFile fails: writeData returns, the temporary file stays as it is
WriteFails ==
    /\ call.fn = "SaveLock" /\ call.pc = "write"
    /\ call' = [call EXCEPT !.pc = "idle", !.err = "write"]
    /\ UNCHANGED storeVars

\* os.Rename(tmpPath, path)
Rename ==
    /\ call.fn = "SaveLock" /\ call.pc = "rename"
    /\ call' = [call EXCEPT !.pc = "idle", !.lockPath = call.tmpPath, !.tmpPath = Absent,
                            !.saves = @ + 1]
    /\ UNCHANGED storeVars

\* os.Rename fails: the temporary file is removed
RenameFails ==
    /\ call.fn = "SaveLock" /\ call.pc = "rename"
    /\ call' = [call EXCEPT !.pc = "idle", !.tmpPath = Absent, !.err = "replace"]
    /\ UNCHANGED storeVars

\* the process is stopped in the middle of a save
StopSave ==
    /\ call.fn = "SaveLock" /\ call.pc \in {"write", "rename"}
    /\ call' = [call EXCEPT !.pc = "stopped"]
    /\ UNCHANGED storeVars

\* tohru is run again after it was stopped
RunAgain ==
    /\ call.fn = "SaveLock" /\ call.pc = "stopped"
    /\ call' = [call EXCEPT !.pc = "idle", !.err = ""]
    /\ UNCHANGED storeVars

NextSave ==
    \/ \E lck \in SavedLocks : SaveBegin(lck)
    \/ WriteTmp
    \/ WriteFails
    \/ Rename
    \/ RenameFails
    \/ StopSave
    \/ RunAgain

SpecSave == InitSave /\ [][NextSave]_vars

----------------------------------------------------------------------------
(* store: ensureParentDirs and cleanupTrackedAutoDirs called on their own:  *)
(* the parents of a destination are created and recorded, the entry comes   *)
(* and goes, and the recorded directories are cleaned up; or a lock file    *)
(* records any directories and they are cleaned up on any target            *)

\* the target in any condition: directories, files and symlinks anywhere
TargetTrees ==
    { f \in [Paths -> {NoNode, DirNode, FileNode(3), LinkNode(0)}] :
        \A p \in Paths : f[p].type # "none" => \A a \in Ancestors(p) : f[a].type = "dir" }

\* lock.Dirs: any set of paths, in the order SaveLock keeps
RecordedDirs == { SortedDirs(S) : S \in SUBSET Paths }

InitAutoDirs ==
    /\ StoreUnused
    /\ \E f \in TargetTrees :
         \/ \E p \in Paths :
               call = [fn |-> "ensureParentDirs", f0 |-> f, f |-> f, path |-> p,
                       dirs |-> << >>, done |-> FALSE, out |-> [fs |-> f, err |-> ""]]
         \/ \E dirs \in RecordedDirs :
               call = [fn |-> "cleanupTrackedAutoDirs", f0 |-> f, f |-> f, path |-> << >>,
                       dirs |-> dirs, done |-> FALSE, out |-> [fs |-> f, err |-> ""]]

\* ensureParentDirs(path) as applyManifestOps calls it; the directories it
\* reports are recorded in lock.Dirs, and the entry is or is not at path when
\* the directories are cleaned up
EnsureCall ==
    /\ call.fn = "ensureParentDirs" /\ ~call.done
    /\ LET en == ensureParentDirs(call.f, call.path)
       IN  IF en.err # ""
           THEN call' = [call EXCEPT !.done = TRUE, !.out = [fs |-> en.fs, err |-> en.err]]
           ELSE \E entry \in {NoNode, FileNode(1)} :
                   call' = [call EXCEPT
                               !.fn = "cleanupTrackedAutoDirs",
                               !.f = [RemovePath(en.fs, call.path) EXCEPT ![call.path] = entry],
                               !.dirs = SortedDirs(en.created),
                               !.out = [fs |-> [RemovePath(en.fs, call.path)
                                                   EXCEPT ![call.path] = entry],
                                        err |-> ""]]
    /\ UNCHANGED storeVars

\* cleanupTrackedAutoDirs(lock.Dirs)
CleanupCall ==
    /\ call.fn = "cleanupTrackedAutoDirs" /\ ~call.done
    /\ call' = [call EXCEPT !.done = TRUE,
                            !.out = cleanupTrackedAutoDirs(call.f, call.dirs)]
    /\ UNCHANGED storeVars

NextAutoDirs == EnsureCall \/ CleanupCall

SpecAutoDirs == InitAutoDirs /\ [][NextAutoDirs]_vars

----------------------------------------------------------------------------
(* Properties *)

\* the step is a store call that returned without error
Succeeded(op) == res = Idle /\ res'.op = op /\ res'.err = ""

\* p is neither inside nor above a path the lock file records
Unmanaged(p) ==
    \A q \in PathsOf(lock.Files) \cup PathsOf(lock.Dirs) : ~IsPrefix(q, p) /\ ~IsPrefix(p, q)

\* C1: with backups enabled and force not set, the object U that a Load finds
\* at the destination P of a tracked operation is stored in the backup store
\* under the prev digest of the new entry, and a later Unload of that entry
\* without force leaves at P an object identical to U.
C1_BackupThenRestore ==
    [][ /\ (Succeeded("Load") /\ ~res'.opts.Force /\ cfg.Backup) =>
              \A i \in DOMAIN lock'.Files :
                  LET p == lock'.Files[i].Path
                      U == ObjectAt(fs, p)
                  IN  (Lstat(fs, p) = "ok" /\ Unmanaged(p)) =>
                          /\ lock'.Files[i].Prev = DigestOfObject(U)
                          /\ BackupExists(bk', lock'.Files[i].Prev)
                          /\ bk'[lock'.Files[i].Prev] = U
                          /\ orig'[p] = U
        /\ (Succeeded("Unload") /\ ~res'.opts.Force) =>
              \A p \in res'.oldPaths : orig[p] # {} => ObjectAt(fs', p) = orig[p]
      ]_vars

\* an Unload without force has put back the file a Load had found and backed up
C1_Witness ==
    /\ res.op = "Unload" /\ res.err = "" /\ ~res.opts.Force
    /\ \E p \in res.restored : fs[p] = FileNode(3)

\* C2: when the apply phase of a Load fails while a source is loaded, the
\* lock file and the object at every old and new destination are, once Load
\* has returned its error, what they were immediately before the call.
C2_ApplyFailureRestoresOldSource ==
    [][ (res = Idle /\ res'.op = "Load" /\ res'.phase = "apply" /\ lock.State = "loaded") =>
            /\ lock' = lock
            /\ \A p \in res'.oldPaths \cup res'.newDests : ObjectAt(fs', p) = ObjectAt(fs, p)
      ]_vars

\* C3: when the apply phase of a Load fails while no source is loaded, every
\* object and every parent directory the call created is gone again, and the
\* lock file is unloaded with an empty location and no entries.
C3_ApplyFailureRemovesCreated ==
    [][ (res = Idle /\ res'.op = "Load" /\ res'.phase = "apply" /\ lock.State = "unloaded") =>
            /\ lock'.State = "unloaded" /\ lock'.Loc = 0 /\ Len(lock'.Files) = 0
            /\ \A p \in res'.made \cup res'.autoDirs : Lstat(fs', p) = "enoent"
      ]_vars

\* the sources whose manifest cannot be resolved or built: an import cycle, an
\* import outside the source root, a link source outside the source root, a
\* destination named twice, a version this build does not accept
Unresolvable ==
    { loc \in Locs : SourceDirs[loc][1].Name \in
                        {"cycle-a", "escape", "outside", "duplicate", "newer"} }

\* C4: a Load of a source whose manifest fails resolution or operation
\* building returns an error and changes no path of the target filesystem,
\* no backup object and nothing of the lock file.
C4_ResolveFailureChangesNothing ==
    [][ (res = Idle /\ res'.op \in {"Load", "Reload"} /\ res'.loc \in Unresolvable) =>
            /\ res'.err # ""
            /\ fs' = fs /\ bk' = bk /\ lock' = lock
      ]_vars

\* a Load was refused for a duplicate destination while a source with a
\* backed-up object is loaded
C4_Witness ==
    /\ res.op = "Load" /\ res.err = "duplicate destination in manifest"
    /\ lock.State = "loaded" /\ bk # << >>

\* the lock file has an entry at q with a prev backup reference
HasPrev(q) ==
    \E j \in DOMAIN lock.Files : lock.Files[j].Path = q /\ ~IsZero(lock.Files[j].Prev)

\* the step is a Load that switched from a loaded source to another
Switched == Succeeded("Load") /\ lock.State = "loaded"

C6_PrevCarriedForward ==
    [][ /\ Switched =>
              \A i \in DOMAIN lock'.Files :
                  LET q == lock'.Files[i].Path
                  IN  HasPrev(q) =>
                          /\ \E j \in DOMAIN lock.Files :
                                 /\ lock.Files[j].Path = q
                                 /\ lock'.Files[i].Prev = lock.Files[j].Prev
                          /\ BackupExists(bk', lock'.Files[i].Prev)
                          /\ orig'[q] = orig[q]
                          /\ carried'[q]
        /\ (Succeeded("Unload") /\ ~res'.opts.Force) =>
              \A q \in res'.oldPaths : carried[q] =>
                  /\ orig[q] # {}
                  /\ ObjectAt(fs', q) = orig[q]
      ]_vars

\* an Unload restored a file whose backup reference had been taken over by
\* a later Load at the same path
C6_Witness ==
    /\ res.op = "Unload" /\ res.err = "" /\ ~res.opts.Force
    /\ \E q \in res.restored : fs[q] = FileNode(3) /\ q \in res.carriedPaths

\* C7: a lock file in state unloaded has no entries and no auto-created
\* directories; a lock file in state loaded has a non-empty location.
C7_LockStateConsistent ==
    /\ lock.State \in {"loaded", "unloaded"}
    /\ lock.State = "unloaded" => Len(lock.Files) = 0 /\ Len(lock.Dirs) = 0
    /\ lock.State = "loaded" => lock.Loc # 0

\* a Load failed in its apply phase after a source had been unloaded
C7_Witness ==
    /\ res.op = "Load" /\ res.phase = "apply" /\ res.unloadedCount > 0
    /\ lock.State = "unloaded"

\* the backup keys that are the prev digest of an entry of the lock file
PrevDigests == { lock.Files[i].Prev : i \in DOMAIN lock.Files } \ { NoDigest }

\* C8: Tidy removes exactly the backup keys that are not the prev digest of
\* an entry of the lock file, returns their number as RemovedCount, and
\* leaves every referenced backup object as it was.
C8_TidyRemovesUnreferenced ==
    [][ Succeeded("Tidy") =>
            /\ DOMAIN bk' = (DOMAIN bk) \cap PrevDigests
            /\ \A k \in DOMAIN bk' : bk'[k] = bk[k]
            /\ res'.count = Cardinality((DOMAIN bk) \ PrevDigests)
      ]_vars

\* a Tidy removed an unreferenced backup and kept a referenced one
C8_Witness ==
    /\ res.op = "Tidy" /\ res.err = "" /\ res.count > 0
    /\ PrevDigests # {} /\ PrevDigests \subseteq DOMAIN bk

\* C9: Tidy and Status change neither the lock file nor any path of the
\* target filesystem; only Load, Reload and Unload change the lock file.
C9_TidyStatusFrame ==
    [][ /\ (res = Idle /\ res'.op \in {"Tidy", "Status"}) => (lock' = lock /\ fs' = fs)
        /\ lock' # lock => (res = Idle /\ res'.op \in {"Load", "Reload", "Unload"})
      ]_vars

\* a Tidy swept the backup store while a source was loaded
C9_Witness ==
    /\ res.op = "Tidy" /\ res.err = "" /\ res.count > 0
    /\ lock.State = "loaded" /\ Len(lock.Files) > 0

C12_NotInstalledFails ==
    [][ (res = Idle /\ ~installed
         /\ res'.op \in {"Load", "Reload", "Unload", "Tidy", "Status"}) =>
            /\ res'.err = ErrNotInstalled
            /\ installed' = installed
            /\ fs' = fs /\ bk' = bk /\ lock' = lock /\ cfg' = cfg
      ]_vars

\* C12 amended: Reload, Unload, Tidy and Status on a store that is not
\* installed fail with the not-installed error, create no store file and
\* touch no path; Load creates the missing store files and goes on to switch,
\* so it never returns the not-installed error.
C12_NotInstalledFailsExceptLoad ==
    [][ /\ (res = Idle /\ ~installed
            /\ res'.op \in {"Reload", "Unload", "Tidy", "Status"}) =>
              /\ res'.err = ErrNotInstalled
              /\ installed' = installed
              /\ fs' = fs /\ bk' = bk /\ lock' = lock /\ cfg' = cfg
        /\ (res = Idle /\ ~installed /\ res'.op = "Load") =>
              /\ installed'
              /\ res'.err # ErrNotInstalled
              /\ cfg' = DefaultConfig
      ]_vars

\* a forced Unload was refused on a store that is not installed, with a file
\* present in the target
C12_Witness ==
    /\ ~installed
    /\ res.op = "Unload" /\ res.opts.Force /\ res.err = ErrNotInstalled
    /\ fs[P1] = FileNode(3)

\* the operations of the manifest at loc that are not tracked
UntrackedOps(loc) ==
    LET ops == buildManifestOps(Manifests[loc].m).ops
    IN  { ops[i] : i \in { j \in DOMAIN ops : ~ops[j].Track } }

\* p is neither inside nor above a path in S
Apart(p, S) == \A q \in S : ~IsPrefix(q, p) /\ ~IsPrefix(p, q)

OpsOf(loc) ==
    IF Manifests[loc].err # "" THEN << >> ELSE buildManifestOps(Manifests[loc].m).ops

\* C14: a Load without force of a manifest of untracked dir operations, one
\* of whose destinations is an existing directory, succeeds, reports a
\* tracked count of 0 and leaves what the directory holds in place.
C14_ExistingUntrackedDirKept ==
    [][ (/\ res = Idle /\ res'.op = "Load" /\ ~res'.opts.Force
         /\ lock.State = "unloaded"
         /\ OpsOf(res'.loc) # << >>
         /\ \A i \in DOMAIN OpsOf(res'.loc) :
                OpsOf(res'.loc)[i].Kind = "dir" /\ ~OpsOf(res'.loc)[i].Track
         /\ \E i \in DOMAIN OpsOf(res'.loc) :
                /\ Lstat(fs, OpsOf(res'.loc)[i].Dest) = "ok"
                /\ fs[OpsOf(res'.loc)[i].Dest].type = "dir") =>
            /\ res'.err = ""
            /\ res'.count = 0
            /\ \A i \in DOMAIN OpsOf(res'.loc) :
                   fs[OpsOf(res'.loc)[i].Dest].type = "dir" =>
                       ObjectAt(fs', OpsOf(res'.loc)[i].Dest) = ObjectAt(fs, OpsOf(res'.loc)[i].Dest)
      ]_vars

\* C15: a Load without force of a manifest with a tracked dir operation
\* whose destination exists fails with "tracked dir destination already
\* exists".
C15_ExistingTrackedDirRejected ==
    [][ (/\ res = Idle /\ res'.op = "Load" /\ ~res'.opts.Force
         /\ lock.State = "unloaded"
         /\ \E i \in DOMAIN OpsOf(res'.loc) :
                /\ OpsOf(res'.loc)[i].Kind = "dir" /\ OpsOf(res'.loc)[i].Track
                /\ Lstat(fs, OpsOf(res'.loc)[i].Dest) = "ok") =>
            res'.err = "tracked dir destination already exists"
      ]_vars

\* every entry of the lock file exists on disk with its recorded digest
NoDrift ==
    \A i \in DOMAIN lock.Files :
        /\ Lstat(fs, lock.Files[i].Path) = "ok"
        /\ lock.Files[i].Curr = ForPath(fs, lock.Files[i].Path)

\* C16: a Reload, or a Load of the loaded source again, without force and
\* with no managed path modified since, succeeds and leaves the object at
\* every destination of the manifest and the entries of the lock file as the
\* first Load left them.
C16_ReloadIdempotent ==
    [][ (/\ res = Idle /\ res'.op \in {"Load", "Reload"} /\ ~res'.opts.Force
         /\ lock.State = "loaded" /\ res'.loc = lock.Loc
         /\ NoDrift) =>
            /\ res'.err = ""
            /\ lock'.Files = lock.Files
            /\ lock'.State = "loaded" /\ lock'.Loc = lock.Loc
            /\ \A i \in DOMAIN OpsOf(lock.Loc) :
                   ObjectAt(fs', OpsOf(lock.Loc)[i].Dest) = ObjectAt(fs, OpsOf(lock.Loc)[i].Dest)
      ]_vars

\* a digest the sentence calls valid: a known kind; kind null with empty
\* algorithm and sum, any other kind with non-empty algorithm and sum
ValidDigest(d) ==
    /\ validateKind(d.Kind)
    /\ IF d.Kind = KindNull THEN d.Algorithm = << >> /\ d.Sum = << >>
       ELSE d.Algorithm # << >> /\ d.Sum # << >>

\* a field written without separator and without blanks around it
PlainField(str) == TrimSpace(str) = str /\ \A i \in DOMAIN str : str[i] # ":"

\* number of separators in a text
Colons(str) == Cardinality({ i \in DOMAIN str : str[i] = ":" })

\* C17 as stated: Parse(String(d)) = d for every valid digest d; Parse of the
\* empty text is the zero digest without error; Parse of a text of exactly
\* two colon-separated parts fails.
C17_ParseStringRoundTrip ==
    /\ (call.fn = "Parse" /\ ValidDigest(call.d)) => call.out = [d |-> call.d, err |-> ""]
    /\ (call.fn = "ParseRaw" /\ call.raw = << >>) => call.out = [d |-> ZeroDigest, err |-> ""]
    /\ (call.fn = "ParseRaw" /\ Colons(call.raw) = 1) => call.out.err # ""

\* C17 amended: Parse(String(d)) = d for every valid digest d whose
\* algorithm and sum hold no colon and no leading or trailing blank; Parse of
\* the empty text is the zero digest without error; Parse of a text of
\* exactly two colon-separated parts fails.
C17_ParseStringRoundTripPlain ==
    /\ (/\ call.fn = "Parse" /\ ValidDigest(call.d)
        /\ PlainField(call.d.Algorithm) /\ PlainField(call.d.Sum)) =>
            call.out = [d |-> call.d, err |-> ""]
    /\ (call.fn = "ParseRaw" /\ call.raw = << >>) => call.out = [d |-> ZeroDigest, err |-> ""]
    /\ (call.fn = "ParseRaw" /\ Colons(call.raw) = 1) => call.out.err # ""

\* a file digest with a two-character sum was written and parsed back
C17_Witness ==
    /\ call.fn = "Parse" /\ call.d.Kind = KindFile
    /\ PlainField(call.d.Algorithm) /\ PlainField(call.d.Sum) /\ Len(call.d.Sum) = 2
    /\ call.out = [d |-> call.d, err |-> ""]

\* C18: two directories with the same set of (relative path, type, payload)
\* records have the same digest, whatever the order in which the walk
\* visited their entries.
C18_DirDigestOrderFree ==
    (call.fn = "hashDir" /\ Len(call.sums) = 2) => call.sums[1] = call.sums[2]

\* two directories of three entries each, walked in different orders, were
\* both hashed
C18_Witness ==
    /\ call.fn = "hashDir" /\ Len(call.sums) = 2
    /\ Cardinality(call.records) = 3
    /\ call.first # call.second
    /\ call.sums[1] = call.sums[2]

\* the imports of the directory that apply on this platform, as edges
ImportEdges(dir) ==
    { e \in ManifestFiles \X ManifestFiles :
        \E k \in DOMAIN dir[e[1]].Imports :
            /\ dir[e[1]].Imports[k].Path = e[2]
            /\ Applies(dir[e[1]].Imports[k], GOOS, GOARCH) }

\* the manifest files reached from those in S over one or more edges
RECURSIVE ReachedFrom(_, _)
ReachedFrom(dir, S) ==
    LET T == S \cup { e[2] : e \in { x \in ImportEdges(dir) : x[1] \in S } }
    IN  IF T = S THEN S ELSE ReachedFrom(dir, T)

ImportedBy(dir, n) ==
    ReachedFrom(dir, { e[2] : e \in { x \in ImportEdges(dir) : x[1] = n } })

\* the import graph reachable from tohru.toml has a cycle
HasImportCycle(dir) ==
    \E n \in ReachedFrom(dir, { 1 }) : n \in ImportedBy(dir, n)

\* C19: import resolution terminates; it fails with "manifest import cycle
\* detected" exactly when the platform-filtered import graph reachable from
\* the root has a cycle, and then reports the chain from the root to the
\* manifest met again; otherwise it succeeds, also when a manifest is
\* imported along two paths, with the manifest the recursive load gives.
C19_ImportCycles ==
    /\ <>(call.fn = "loadWithImports" /\ call.done)
    /\ [](call.fn = "loadWithImports" /\ call.done =>
            /\ (call.out.err = "manifest import cycle detected") <=> HasImportCycle(call.dir)
            /\ call.out.err \in { "", "manifest import cycle detected" }
            /\ call.out.err = ctxLoad(call.dir, 1, << >>).err
            /\ call.out.m = ctxLoad(call.dir, 1, << >>).m
            /\ call.out.err # "" =>
                   LET chain == call.out.cycle
                   IN  /\ Len(chain) >= 2 /\ chain[1] = 1
                       /\ \E i \in 1..(Len(chain) - 1) : chain[i] = chain[Len(chain)]
                       /\ \A i \in 1..(Len(chain) - 1) :
                              <<chain[i], chain[i + 1]>> \in ImportEdges(call.dir))

\* a resolution ended without error although one manifest file is imported
\* both by the root and by another import of the root
C19_Witness ==
    /\ call.fn = "loadWithImports" /\ call.done /\ call.out.err = ""
    /\ {<<1, 2>>, <<1, 3>>, <<2, 3>>} \subseteq ImportEdges(call.dir)
    /\ Len(call.out.m.Files) = 4

\* C20: Status reports every entry of the lock file once: missing and
\* drifted when its path does not exist, drifted and not missing when the
\* path exists with a digest other than the recorded curr, neither when the
\* digests are equal.
C20_StatusFlags ==
    [][ (res = Idle /\ res'.op = "Status" /\ res'.err = "") =>
            /\ Len(res'.status) = Len(lock.Files)
            /\ \A i \in DOMAIN lock.Files :
                   \E k \in DOMAIN res'.status :
                       LET entry == lock.Files[i]
                           item == res'.status[k]
                       IN  /\ item.Path = entry.Path
                           /\ Lstat(fs, entry.Path) = "enoent" =>
                                  item.Missing /\ item.Drifted
                           /\ (Lstat(fs, entry.Path) = "ok"
                               /\ ForPath(fs, entry.Path) # entry.Curr) =>
                                  item.Drifted /\ ~item.Missing
                           /\ (Lstat(fs, entry.Path) = "ok"
                               /\ ForPath(fs, entry.Path) = entry.Curr) =>
                                  ~item.Drifted /\ ~item.Missing
      ]_vars

\* a Status reported one managed path as missing and drifted and another as
\* clean
C20_Witness ==
    /\ res.op = "Status" /\ res.err = ""
    /\ \E k \in DOMAIN res.status : res.status[k].Missing /\ res.status[k].Drifted
    /\ \E k \in DOMAIN res.status : ~res.status[k].Missing /\ ~res.status[k].Drifted

\* C21: Load, Reload and Unload sweep the backup store only when options.clean
\* is set: with clean disabled they remove no backup object and change none,
\* and the only call that removes one is Tidy; with clean enabled a call that
\* succeeds leaves exactly the backup objects its new lock file references,
\* and a call that fails removes none.
C21_SweepOnlyWhenClean ==
    [][ /\ (res = Idle /\ res'.op \in {"Load", "Reload", "Unload"} /\ ~cfg.Clean) =>
              /\ \A k \in DOMAIN bk : k \in DOMAIN bk' /\ bk'[k] = bk[k]
              /\ res'.removedBackups = {}
        /\ (res = Idle /\ res'.op \in {"Load", "Reload", "Unload"} /\ cfg.Clean) =>
              IF res'.err = ""
              THEN /\ DOMAIN bk' \subseteq Referenced(lock'.Files)
                   /\ (DOMAIN bk) \cap Referenced(lock'.Files) \subseteq DOMAIN bk'
                   /\ (DOMAIN bk) \ Referenced(lock'.Files) \subseteq res'.removedBackups
              ELSE DOMAIN bk \subseteq DOMAIN bk'
        /\ (~cfg.Clean /\ (DOMAIN bk) \ (DOMAIN bk') # {}) =>
              (res = Idle /\ res'.op = "Tidy")
      ]_vars

\* with clean disabled a Load switched sources and left in the backup store
\* an object that its new lock file does not reference
C21_Witness ==
    /\ res.op = "Load" /\ res.err = "" /\ ~cfg.Clean
    /\ res.unloadedCount > 0
    /\ (DOMAIN bk) \ Referenced(lock.Files) # {}

\* the call is between the save of the unloaded lock file and the save of
\* the new one
InWindow == call.fn = "switchWithConfig" /\ call.pc = "apply"

\* C22: within a Load the unloaded lock file is saved after the entries of
\* the old lock file were unloaded and before the first operation of the new
\* source is applied; from that save to the save of the new lock file the
\* persisted lock file is unloaded, has no entries and an empty location, and
\* it is so too when the process stops there.
C22_CheckpointBeforeApply ==
    [][ /\ InWindow' => lock' = DefaultLock
        /\ (InWindow /\ call' = NoCall) =>
               lock'.State = "unloaded" /\ Len(lock'.Files) = 0 /\ lock'.Loc = 0
        /\ (call.fn = "switchWithConfig" /\ call.pc = "checkpoint" /\ call' # NoCall) =>
               /\ lock' = DefaultLock
               /\ fs' = fs
               /\ call'.st.made = {} /\ call'.i = 1
               /\ \A k \in DOMAIN call.oldLock.Files :
                      LET e == call.oldLock.Files[k]
                      IN  Lstat(fs, e.Path) = "ok" =>
                              \/ (~IsZero(e.Prev)
                                     /\ e.Path \notin { call.ops[j].Dest : j \in DOMAIN call.ops })
                              \/ \E k2 \in DOMAIN call.oldLock.Files :
                                     /\ IsPrefix(call.oldLock.Files[k2].Path, e.Path)
                                     /\ ~IsZero(call.oldLock.Files[k2].Prev)
        /\ (InWindow /\ fs' # fs) => lock = DefaultLock
      ]_vars

\* the process stopped after the first operation of a new source was applied
\* over a source that had been loaded; the lock file left behind is unloaded
C22_Witness ==
    /\ call.fn = "switchWithConfig" /\ call.pc = "apply" /\ call.i = 2
    /\ call.oldLock.State = "loaded" /\ Len(call.oldLock.Files) > 0
    /\ call.loc # call.oldLock.Loc
    /\ lock = DefaultLock

\* C23: when a Load fails in its unload phase after it has removed some of
\* the old entries, the target filesystem and the lock file are, once Load
\* has returned its error, what they were immediately before the call.
C23_UnloadFailureRollsBack ==
    [][ (res = Idle /\ res'.op = "Load" /\ res'.phase = "unload" /\ res'.removed # {}) =>
            /\ lock' = lock
            /\ fs' = fs
      ]_vars

\* C24: a Load that succeeds keeps or restores every backup reference: for
\* each old entry with a prev backup, the backup was restored at the entry's
\* path or an entry of the new lock file at that path has the same prev,
\* also when the new source puts an untracked operation at that path.
C24_PrevRestoredOrKept ==
    [][ Switched =>
            \A j \in DOMAIN lock.Files :
                ~IsZero(lock.Files[j].Prev) =>
                    \/ lock.Files[j].Path \in res'.restored
                    \/ \E i \in DOMAIN lock'.Files :
                           /\ lock'.Files[i].Path = lock.Files[j].Path
                           /\ lock'.Files[i].Prev = lock.Files[j].Prev
      ]_vars

\* C25: right after a Load that succeeded, with nothing else writing to the
\* target, every entry of the lock file exists on disk with the digest
\* recorded as its curr, also when a destination of the manifest lies inside
\* another one.
C25_FreshLoadHasNoDrift ==
    [][ (res = Idle /\ res'.op = "Load" /\ res'.err = "") =>
            \A i \in DOMAIN lock'.Files :
                /\ Lstat(fs', lock'.Files[i].Path) = "ok"
                /\ lock'.Files[i].Curr = ForPath(fs', lock'.Files[i].Path)
      ]_vars

\* applyManifestOps has returned from a call with a tracked operation whose
\* destination existed, with no prev carried for it and backups enabled
BackedUpCase ==
    /\ call.fn = "applyManifestOps" /\ call.done
    /\ call.op.Track /\ call.backup
    /\ Lstat(call.f, call.op.Dest) = "ok"
    /\ IsZero(PrevAt(call.oldFiles, call.op.Dest))

\* the backup key of what the call found at the destination holds another object
Collision ==
    LET d == ForPath(call.f, call.op.Dest)
    IN  BackupExists(call.b, d) /\ DigestOfObject(call.b[d]) # d

Alone(ops, i) == \A j \in DOMAIN ops : j # i => Apart(ops[i].Dest, { ops[j].Dest })

\* the operations before i were all applied
EarlierMade(ops, i, made) == \A j \in 1..(i - 1) : ops[j].Dest \in made

\* the Load or Reload got as far as applying operations
ReachedApply ==
    /\ res = Idle /\ res'.op \in {"Load", "Reload"}
    /\ res'.loc \in AllLocs /\ res'.phase \in {"", "apply"}

C28_BackupDisabledNeedsForce ==
    [][ (ReachedApply /\ ~cfg.Backup) =>
            \A i \in DOMAIN OpsOf(res'.loc) :
                LET ops == OpsOf(res'.loc)
                    dest == ops[i].Dest
                IN  (/\ ops[i].Track
                     /\ Lstat(fs, dest) = "ok"
                     /\ Unmanaged(dest)
                     /\ Alone(ops, i)) =>
                        IF ~res'.opts.Force
                        THEN /\ res'.err # ""
                             /\ dest \notin res'.made
                             /\ ObjectAt(fs', dest) = ObjectAt(fs, dest)
                             /\ bk' = bk
                             /\ EarlierMade(ops, i, res'.made) =>
                                    res'.err = "destination exists and options.backup=false"
                        ELSE (EarlierMade(ops, i, res'.made)
                                /\ (ops[i].Kind = "file" => SrcExists(ops[i].Source))) =>
                                /\ dest \in res'.made
                                /\ dest \in res'.cleared
                                /\ dest \notin res'.backedUp
                                /\ DOMAIN bk' \subseteq DOMAIN bk
                                /\ ObjectAt(fs', dest) =
                                       ObjectAt(Materialise(RemovePath(fs, dest), ops[i]).fs, dest)
                                /\ res'.err = "" =>
                                       \E k \in DOMAIN lock'.Files :
                                           /\ lock'.Files[k].Path = dest
                                           /\ IsZero(lock'.Files[k].Prev)
      ]_vars

\* with backups disabled a Load with force replaced the file it found at a
\* tracked destination; the entry has no prev and the backup store is empty
C28_Witness ==
    /\ res.op = "Load" /\ res.err = "" /\ res.opts.Force /\ ~cfg.Backup
    /\ res.unloadedCount = 0
    /\ \E k \in DOMAIN lock.Files :
           /\ lock.Files[k].Path \in res.cleared
           /\ IsZero(lock.Files[k].Prev)
    /\ bk = << >>

\* the lock file has an entry inside the path of another entry
NestedEntries ==
    \E i, j \in DOMAIN lock.Files :
        i # j /\ IsPrefix(lock.Files[i].Path, lock.Files[j].Path)

\* C29: Unload takes the entries deepest first, so an entry inside another
\* entry's path is removed before that entry is examined; with nothing else
\* writing to the target, an Unload without force of a source with nested
\* tracked directories succeeds, removes every entry and saves the unloaded
\* lock file.
C29_NestedUnloadSucceeds ==
    [][ (/\ res = Idle /\ res'.op = "Unload" /\ installed
         /\ ~res'.opts.Force /\ ~res'.opts.DiscardChanges
         /\ NestedEntries) =>
            /\ res'.err = ""
            /\ res'.removed = res'.oldPaths
            /\ lock' = DefaultLock
      ]_vars

\* no managed path, auto-created directory or restore destination lies
\* below something that is not a directory
NothingInTheWay ==
    \A p \in PathsOf(lock.Files) \cup PathsOf(lock.Dirs) : Lstat(fs, p) # "enotdir"

\* C30: an Unload without force that fails keeps what it did to the entries
\* before the failing one (removed, and restored where the entry has a prev),
\* touches no other entry, and leaves the lock file with every entry of the
\* loaded source; an Unload with force, in that state as in any other,
\* completes, clears every entry and saves the unloaded lock file.
C30_PartialUnloadThenForce ==
    [][ /\ (res = Idle /\ res'.op = "Unload" /\ installed
              /\ ~res'.opts.Force /\ res'.err # "") =>
              /\ lock' = lock
              /\ bk' = bk
              /\ \A q \in res'.removed :
                     IF HasPrev(q) /\ q \in res'.restored
                     THEN ObjectAt(fs', q) = bk[PrevAt(lock.Files, q)]
                     ELSE Lstat(fs', q) = "enoent"
              /\ \A q \in res'.oldPaths \ res'.removed : ObjectAt(fs', q) = ObjectAt(fs, q)
        /\ (res = Idle /\ res'.op = "Unload" /\ installed
              /\ res'.opts.Force /\ NothingInTheWay) =>
              /\ res'.err = ""
              /\ lock' = DefaultLock
              /\ \A q \in res'.oldPaths :
                     IF HasPrev(q) /\ BackupExists(bk, PrevAt(lock.Files, q))
                     THEN ObjectAt(fs', q) = bk[PrevAt(lock.Files, q)]
                     ELSE Lstat(fs', q) = "enoent"
      ]_vars

\* an Unload without force removed an entry, was refused at a later one and
\* returned its error: the removed path is gone, the lock file is the loaded one
C30_Witness ==
    /\ res.op = "Unload" /\ ~res.opts.Force /\ res.err # ""
    /\ res.removed # {}
    /\ res.oldPaths \ res.removed # {}
    /\ PathsOf(lock.Files) = res.oldPaths
    /\ \E q \in res.removed : Lstat(fs, q) = "enoent"

\* an Unload with force completed on a source of which one entry had been
\* modified and another was already gone, as a refused Unload leaves it
C30_WitnessForced ==
    /\ res.op = "Unload" /\ res.err = "" /\ res.opts.Force
    /\ res.drifted # {}
    /\ res.oldPaths \ (res.removed \cup res.drifted) # {}
    /\ res.drifted \subseteq res.removed
    /\ lock = DefaultLock

\* C31: after every Load, Reload, Unload or Tidy that returns without error,
\* the backup store holds an object under the prev digest of every entry of
\* the saved lock file, and the call left that object as it was if it was
\* there before; entries that share a prev digest share the one object.
C31_ReferencedBackupsKept ==
    [][ (\E op \in {"Load", "Reload", "Unload", "Tidy"} : Succeeded(op)) =>
            \A i \in DOMAIN lock'.Files :
                LET d == lock'.Files[i].Prev
                IN  ~IsZero(d) =>
                        /\ BackupExists(bk', d)
                        /\ BackupExists(bk, d) => bk'[d] = bk[d]
      ]_vars

\* a call swept the backup store while two entries of the lock file had the
\* same prev digest, and the object under that digest is still there
C31_Witness ==
    /\ res.op \in {"Load", "Reload", "Tidy"} /\ res.err = ""
    /\ cfg.Clean
    /\ \E i, j \in DOMAIN lock.Files :
          /\ i # j
          /\ lock.Files[i].Prev = lock.Files[j].Prev
          /\ ~IsZero(lock.Files[i].Prev)
          /\ BackupExists(bk, lock.Files[i].Prev)

\* persistBackupObject has returned
Persisted == call.fn = "persistBackupObject" /\ call.done

\* C32: persistBackupObject leaves a key that already holds an object as it
\* is, and succeeds on it without copying when the object hashes to the key;
\* the only key it can add is the digest it was given, the object it adds
\* hashes to that key, and when the object copied does not hash to the key
\* the call fails with the store as it found it. So a store in which every
\* object hashes to its key stays one.
C32_OneObjectPerDigest ==
    Persisted =>
        LET b == call.b
            d == call.d
            out == call.out
        IN  /\ \A k \in DOMAIN b : k \in DOMAIN out.bk /\ out.bk[k] = b[k]
            /\ (DOMAIN out.bk) \ (DOMAIN b) \subseteq { d }
            /\ \A k \in (DOMAIN out.bk) \ (DOMAIN b) :
                   /\ DigestOfObject(out.bk[k]) = k
                   /\ out.bk[k] = ObjectAt(call.f, call.path)
            /\ (BackupExists(b, d) /\ DigestOfObject(b[d]) = d) =>
                   (out.err = "" /\ out.prev = d)
            /\ out.err = "" =>
                   (out.prev = d /\ BackupExists(out.bk, d) /\ DigestOfObject(out.bk[d]) = d)
            /\ (~IsZero(d) /\ ~BackupExists(b, d) /\ Lstat(call.f, call.path) = "ok"
                  /\ ForPath(call.f, call.path) # d) =>
                   (out.err = "backup digest mismatch" /\ out.bk = b)

\* persistBackupObject was handed a digest whose key held an object already,
\* hashing to the key, while the path held a different object: it returned
\* the reference and the stored object is the one found
C32_Witness ==
    /\ Persisted /\ call.out.err = ""
    /\ BackupExists(call.b, call.d)
    /\ call.out.bk = call.b
    /\ ObjectAt(call.f, call.path) # call.b[call.d]

\* persistBackupObject copied an object that did not hash to the key and
\* reported it, leaving no object under the key
C32_WitnessMismatch ==
    /\ Persisted /\ call.out.err = "backup digest mismatch"
    /\ ~BackupExists(call.out.bk, call.d)

\* restoreBackupObject has returned
RestoreReturned == call.fn = "restoreBackupObject" /\ call.done

\* every node of the object has a place below p
Fits(obj, p) == \A r \in obj : r[1] = << >> \/ (p \o r[1]) \in Paths

\* C33: restoreBackupObject without force fails with "missing backup object"
\* when backups/<prev>/object is absent, and with "restore destination
\* exists" when the object is there and the destination is occupied, and
\* changes nothing in either case. With force a missing backup object is
\* passed over without error and without a change, and an occupied
\* destination is removed first: afterwards the destination holds the backup
\* object and nothing of what was there, and every other path is untouched.
C33_RestoreRefusalsAndForce ==
    RestoreReturned =>
        LET b == call.b
            f == call.f
            d == call.d
            p == call.path
            out == call.out
            sound == BackupExists(b, d) /\ DigestOfObject(b[d]) = d
        IN  /\ (~IsZero(d) /\ ~BackupExists(b, d) /\ ~call.force) =>
                   (out.err = "missing backup object" /\ out.fs = f /\ ~out.restored)
            /\ (~IsZero(d) /\ ~BackupExists(b, d) /\ call.force) =>
                   (out.err = "" /\ out.fs = f /\ ~out.restored)
            /\ (sound /\ Lstat(f, p) = "ok" /\ ~call.force) =>
                   (out.err = "restore destination exists" /\ out.fs = f /\ ~out.restored)
            /\ (BackupExists(b, d) /\ Lstat(f, p) = "ok" /\ call.force) =>
                   /\ out.err = "" /\ out.restored
                   /\ Fits(b[d], p) => ObjectAt(out.fs, p) = b[d]
                   /\ \A q \in Under(p) \ { p } :
                          out.fs[q].type # "none" => \E r \in b[d] : r[1] = Rel(p, q)
                   /\ \A q \in Paths \ Under(p) : out.fs[q] = f[q]
            /\ (sound /\ Lstat(f, p) = "enoent" /\ CanMkdirParents(f, p)) =>
                   /\ out.err = "" /\ out.restored
                   /\ Fits(b[d], p) => ObjectAt(out.fs, p) = b[d]

\* a restore with force put a backup object in the place of a directory that
\* had a file in it: the file is gone
C33_Witness ==
    /\ RestoreReturned /\ call.force /\ call.out.err = "" /\ call.out.restored
    /\ call.f[call.path].type = "dir"
    /\ \E q \in Under(call.path) \ { call.path } :
          call.f[q].type # "none" /\ call.out.fs[q].type = "none"
    /\ ObjectAt(call.out.fs, call.path) = call.b[call.d]

\* a restore without force was refused because the destination was occupied
C33_WitnessRefused ==
    /\ RestoreReturned /\ ~call.force
    /\ call.out.err = "restore destination exists"

\* a restore with force passed over a missing backup object
C33_WitnessSkipped ==
    /\ RestoreReturned /\ call.force /\ ~IsZero(call.d)
    /\ ~BackupExists(call.b, call.d)
    /\ call.out.err = "" /\ Lstat(call.f, call.path) = "ok"

\* the merged manifest of the source at loc resolves, is of a supported
\* version, names no source outside the source root, and two of its entries
\* have the same destination once the paths are normalised
DuplicateDests(loc) ==
    LET loaded == Manifests[loc]
        raw == RawDests(loaded.m)
    IN  /\ loaded.err = ""
        /\ EnsureCompatible(loaded.m.Version)
        /\ \A i \in DOMAIN loaded.m.Links : loaded.m.Links[i].To # EscapingSource
        /\ \A i \in DOMAIN loaded.m.Files : loaded.m.Files[i].Source # EscapingSource
        /\ \E i, j \in DOMAIN raw : i # j /\ AbsPath(raw[i]) = AbsPath(raw[j])

\* C34: a Load or Reload of a source in whose merged manifest two entries
\* (links, files and dirs together, imports included) have the same
\* normalised destination is refused with "duplicate destination in
\* manifest" and changes nothing; the lock file saved by any call has
\* pairwise distinct entry paths.
C34_DuplicateDestinationRejected ==
    [][ /\ (res = Idle /\ res'.op \in {"Load", "Reload"} /\ res'.loc \in AllLocs
              /\ DuplicateDests(res'.loc)) =>
                /\ res'.err = "duplicate destination in manifest"
                /\ lock' = lock /\ fs' = fs /\ bk' = bk
        /\ \A i, j \in DOMAIN lock'.Files :
                i # j => lock'.Files[i].Path # lock'.Files[j].Path
      ]_vars

\* a Load was refused because an entry of the importing manifest, spelt with
\* a "." component, has the destination of an entry of an imported manifest
C34_Witness ==
    /\ res.op = "Load" /\ res.err = "duplicate destination in manifest"
    /\ res.loc \in AllLocs
    /\ Len(SourceDirs[res.loc]) > 1
    /\ \E i, j \in DOMAIN RawDests(Manifests[res.loc].m) :
          RawDests(Manifests[res.loc].m)[i] # RawDests(Manifests[res.loc].m)[j]

\* cleanupTrackedAutoDirs has returned
CleanedUp == call.fn = "cleanupTrackedAutoDirs" /\ call.done

\* the paths that the cleanup found and that are gone after it
Vanished == { p \in Paths : call.f[p].type # "none" /\ call.out.fs[p].type = "none" }

\* the recorded paths that are directories holding nothing but directories
\* that are recorded too
RECURSIVE HollowDir(_)
HollowDir(p) ==
    /\ p \in PathsOf(call.dirs)
    /\ call.f[p].type = "dir"
    /\ \A q \in Under(p) \ { p } : call.f[q].type # "none" => HollowDir(q)

\* C35: cleanupTrackedAutoDirs removes nothing but directories, not symlinks,
\* that lock.Dirs records and that hold nothing at the moment they are
\* removed, and changes nothing else; going deepest first it removes every
\* recorded directory that holds only recorded directories of the same
\* kind; a recorded directory that is missing, is not a directory or is not
\* empty is passed over and the call returns no error. ensureParentDirs
\* reports, and the lock file so records, only directories it made: one that
\* was there before is still there after the cleanup.
C35_AutoDirCleanup ==
    CleanedUp =>
        /\ \A p \in Vanished :
               /\ p \in PathsOf(call.dirs)
               /\ call.f[p].type = "dir"
               /\ \A q \in Under(p) \ { p } : call.f[q].type # "none" => q \in Vanished
        /\ \A p \in Paths \ Vanished : call.out.fs[p] = call.f[p]
        /\ (\A p \in PathsOf(call.dirs) : Lstat(call.f, p) # "enotdir") =>
               /\ call.out.err = ""
               /\ \A p \in Paths : HollowDir(p) => p \in Vanished
        /\ call.path # << >> =>
               \A p \in Paths \ Under(call.path) :
                   call.f0[p].type # "none" => call.out.fs[p] = call.f0[p]

\* the cleanup removed a recorded directory and the recorded directory that
\* held it, and passed over a recorded directory that held a file
C35_Witness ==
    /\ CleanedUp /\ call.out.err = ""
    /\ \E p, q \in Vanished : p # q /\ IsPrefix(p, q)
    /\ \E p \in PathsOf(call.dirs) : call.f[p].type = "file"
    /\ Cardinality(PathsOf(call.dirs)) = 3

\* the parent that ensureParentDirs made was removed after the entry had
\* gone
C35_WitnessMade ==
    /\ CleanedUp /\ call.path # << >>
    /\ Vanished # {} /\ \A p \in Vanished : call.f0[p].type = "none"

\* a parent that was there before ensureParentDirs and held nothing after
\* the entry had gone was left where it was
C35_WitnessKept ==
    /\ CleanedUp /\ call.path # << >> /\ call.dirs = << >>
    /\ \E a \in Ancestors(call.path) :
          /\ call.f0[a].type = "dir" /\ call.out.fs[a].type = "dir"
          /\ \A q \in Under(a) \ { a } : call.out.fs[q].type = "none"

\* manifest.Load has returned
Loaded == call.fn = "manifest.Load" /\ call.done

\* the import is resolved on this platform
AppliesHere(imp) == Applies(imp, GOOS, GOARCH)

\* the manifest that the file id of the directory resolves to
Resolved(dir, id) == ctxLoad(dir, id, << >>).m

\* the entries of one kind of the resolved imports, in the order of the list
RECURSIVE Gather(_, _, _)
Gather(dir, imports, kind) ==
    IF imports = << >> THEN << >>
    ELSE Resolved(dir, Head(imports).Path)[kind] \o Gather(dir, Tail(imports), kind)

\* the value of a scalar field: the file's own unless empty or blank, else
\* that of the last resolved import that has one
ScalarOf(dir, own, imports, field) ==
    LET having == { i \in DOMAIN imports : Resolved(dir, imports[i].Path)[field] # "" }
    IN  IF own[field] \notin {"", Blank} THEN own[field]
        ELSE IF having = {} THEN ""
        ELSE Resolved(dir, imports[CHOOSE i \in having : \A j \in having : j <= i].Path)[field]

\* C36: the manifest that a file resolves to lists, for links, files and
\* dirs alike, the entries of the manifests its imports resolve to, import
\* after import in the order they are declared, and then the file's own
\* entries; version, name and description are the file's own value unless
\* that is empty (or blank), and otherwise the value of the last declared
\* import that resolves to a non-empty one.
C36_MergeOrder ==
    Loaded =>
        \A id \in ManifestIds :
            LET r == IF id = 1 THEN call.out ELSE ctxLoad(call.dir, id, << >>)
                own == call.dir[id]
                imports == SelectSeq(own.Imports, AppliesHere)
            IN  r.err = "" =>
                    /\ \A kind \in {"Links", "Files", "Dirs"} :
                           r.m[kind] = Gather(call.dir, imports, kind) \o own[kind]
                    /\ \A field \in {"Version", "Name", "Description"} :
                           r.m[field] = ScalarOf(call.dir, own, imports, field)

\* tohru.toml imports file 2, which imports file 3, and then file 3 again:
\* the files come in the order 3, 2, 3, 1; tohru.toml has no name and the
\* name is that of file 3, the last import, though file 2 has one; it has a
\* version of its own and keeps it
C36_Witness ==
    /\ Loaded /\ call.out.err = ""
    /\ Len(call.out.m.Files) = 4
    /\ [i \in 1..4 |-> call.out.m.Files[i].Source] = << 3, 2, 3, 1 >>
    /\ call.dir[1].Name = "" /\ call.dir[2].Name = "two"
    /\ call.out.m.Name = "three"
    /\ call.dir[1].Version = "0.1.0" /\ call.dir[3].Version = "0.1.2"
    /\ call.out.m.Version = "0.1.0"

\* the name of tohru.toml is blank and the merged name is that of an import
C36_WitnessBlank ==
    /\ Loaded /\ call.out.err = ""
    /\ call.dir[1].Name = Blank
    /\ call.out.m.Name = "two"

\* the list is empty or names the platform value, whatever the case of the
\* letters
ListAdmits(values, target) ==
    values = << >> \/ \E i \in DOMAIN values : values[i] \in { target, "Linux", "AMD64" }
                                               /\ ToLower(values[i]) = target

\* the import is for the platform of the build
ForThisPlatform(imp) == ListAdmits(imp.OS, GOOS) /\ ListAdmits(imp.Arch, GOARCH)

\* what resolving the import target gives when it cannot be loaded from the
\* file that imports it
TargetError(id, target) ==
    IF target = NoSuchFile THEN "stat import path"
    ELSE IF target = OutsideRoot THEN "import path escapes source root"
    ELSE IF target = id THEN "manifest import cycle detected"
    ELSE ""

\* C37: of the imports of a manifest file exactly those are resolved whose
\* os list admits the operating system of the build and whose arch list
\* admits its architecture, an empty list admitting every value. The
\* ImportTree has one child per resolved import, in order, and the merged
\* entries are those of the resolved imports and the file's own; an import
\* that is skipped adds nothing, and it may name a missing file, a file
\* outside the source root or the importing file itself without an error.
C37_PlatformFilter ==
    Loaded =>
        LET own == call.dir[1]
            imports == SelectSeq(own.Imports, ForThisPlatform)
            bad == { i \in DOMAIN imports : TargetError(1, imports[i].Path) # "" }
        IN  /\ bad = {} =>
                  /\ call.out.err = ""
                  /\ call.out.tree.Path = 1
                  /\ [i \in DOMAIN call.out.tree.Imports |-> call.out.tree.Imports[i].Path]
                        = [i \in DOMAIN imports |-> imports[i].Path]
                  /\ \A kind \in {"Links", "Files", "Dirs"} :
                         call.out.m[kind] = Gather(call.dir, imports, kind) \o own[kind]
            /\ bad # {} =>
                  /\ call.out.err =
                        TargetError(1, imports[CHOOSE i \in bad : \A j \in bad : i <= j].Path)
                  /\ call.out.tree = NoTree

\* an import for another architecture names a file that does not exist, and
\* an import whose lists name this platform among others is resolved: the
\* load succeeds and the tree has the one child
C37_Witness ==
    /\ Loaded /\ call.out.err = ""
    /\ Len(call.dir[1].Imports) = 2
    /\ call.dir[1].Imports[1] = [Path |-> NoSuchFile, OS |-> << >>, Arch |-> << "arm64" >>]
    /\ call.dir[1].Imports[2] = [Path |-> 2, OS |-> << "plan9", "linux" >>, Arch |-> << "amd64" >>]
    /\ Len(call.out.tree.Imports) = 1
    /\ Len(call.out.m.Files) = 3

\* an import of the importing file itself, for another operating system, is
\* passed over
C37_WitnessSelf ==
    /\ Loaded /\ call.out.err = ""
    /\ \E i \in DOMAIN call.dir[1].Imports :
          call.dir[1].Imports[i].Path = 1 /\ call.dir[1].Imports[i].OS = << "plan9" >>
    /\ call.out.tree.Imports = << >>

\* C38: Status reports as orphaned exactly the keys under backups/ that no
\* prev of the lock file references, and as broken exactly the keys without
\* an object, so that a key without an object that nothing references is in
\* both sets.
C38_OrphanedAndBroken ==
    (call.fn = "Status" /\ call.done) =>
        /\ call.out.orphaned = (DOMAIN call.b) \ Referenced(call.files)
        /\ call.out.broken = { k \in DOMAIN call.b : call.b[k] = {} }

\* C39: at every step of a save, carried through, failed or stopped, the
\* data at the lock path is the complete lock value that was there when the
\* save began or the complete value being saved, and decodes to it; the data
\* at the lock path changes in the rename only, from the one to the other.
C39_LockReplacedByRename ==
    [][ call.fn = "SaveLock" =>
            /\ call'.lockPath \in { call'.old, call'.data }
            /\ Unmarshal(call'.lockPath) \in
                   { [State |-> l.State, Kind |-> l.Kind, Name |-> l.Name] :
                       l \in { NormaliseLock(x) : x \in SavedLocks } }
            /\ call'.lockPath # call.lockPath =>
                   /\ call.pc = "rename" /\ call'.pc = "idle"
                   /\ call.lockPath = call.old
                   /\ call'.lockPath = call.data
                   /\ call.tmpPath = call.data
      ]_vars

\* the process was stopped while the temporary file held a part of the new
\* lock value: the lock path holds the previous value, which is another one
C39_Witness ==
    /\ call.fn = "SaveLock" /\ call.pc = "stopped"
    /\ call.tmpPath # << >> /\ Len(call.tmpPath) < Len(call.data)
    /\ Unmarshal(call.tmpPath) = "unexpected end of JSON input"
    /\ call.lockPath = call.old /\ call.old # call.data
    /\ Unmarshal(call.lockPath).State = "loaded"

\* a save was carried through over the temporary file that a stopped save
\* had left
C39_WitnessStale ==
    /\ call.fn = "SaveLock" /\ call.pc = "idle" /\ call.saves = 2
    /\ call.lockPath = call.data /\ call.old # call.data

\* the entry of the lock files for path p
EntriesAt(files, p) == { k \in DOMAIN files : files[k].Path = p }

\* C40, first half: a first Load whose tracked file operation finds nothing
\* at its destination records exactly one entry for it, without prev.
C40_FirstLoadHasNoPrev ==
    [][ (Succeeded("Load") /\ lock.State = "unloaded" /\ lock.Files = << >>) =>
            \A i \in DOMAIN OpsOf(res'.loc) :
                LET op == OpsOf(res'.loc)[i]
                IN  (op.Kind = "file" /\ op.Track /\ Lstat(fs, op.Dest) = "enoent") =>
                        /\ Cardinality(EntriesAt(lock'.Files, op.Dest)) = 1
                        /\ \A k \in EntriesAt(lock'.Files, op.Dest) :
                               /\ IsZero(lock'.Files[k].Prev)
                               /\ lock'.Files[k].Curr = ForPath(fs', op.Dest)
      ]_vars

\* a first Load placed a managed file where nothing was
C40_WitnessFirst ==
    /\ res.op = "Load" /\ res.err = "" /\ res.unloadedCount = 0
    /\ \E k \in DOMAIN lock.Files :
           /\ fs[lock.Files[k].Path].type = "file"
           /\ lock.Files[k].Path \in res.made
           /\ lock.Files[k].Path \notin res.backedUp \cup res.cleared
           /\ IsZero(lock.Files[k].Prev)

\* C40 as stated: when a managed file recorded without prev was edited and
\* a Load of another source that has a tracked file operation for the same
\* destination succeeds with backups enabled, the new entry for the
\* destination has a prev, the backup store holds an object under it, and
\* it is the digest recorded before the edit (the digest of the edited file
\* is accepted as well).
C40_EditedFileBackedUpOnSwitch ==
    [][ (Switched /\ cfg.Backup /\ res'.loc # lock.Loc) =>
            \A j \in DOMAIN lock.Files :
                LET old == lock.Files[j]
                IN  (/\ IsZero(old.Prev)
                     /\ fs[old.Path].type = "file"
                     /\ old.Path \in Drifted(fs, lock.Files)
                     /\ \E i \in DOMAIN OpsOf(res'.loc) :
                            /\ OpsOf(res'.loc)[i].Dest = old.Path
                            /\ OpsOf(res'.loc)[i].Kind = "file"
                            /\ OpsOf(res'.loc)[i].Track) =>
                        \E k \in EntriesAt(lock'.Files, old.Path) :
                            /\ lock'.Files[k].Prev \in { old.Curr, ForPath(fs, old.Path) }
                            /\ BackupExists(bk', lock'.Files[k].Prev)
      ]_vars

====
